---------------------------- MODULE Spec2Model ----------------------------
(***************************************************************************)
(* nclaude: the message room over the file log (storage/file.py,           *)
(* rooms/base.py), the listen daemon (commands/listen.py) and the          *)
(* real-time hub (scripts/hub.py).                                         *)
(*                                                                         *)
(* Text is modelled character by character: a Python str is a sequence of  *)
(* one-character strings, so that formatting (to_log_line), splitlines()   *)
(* and the regular expressions of the parser are computed, not assumed.    *)
(* None is the empty sequence wherever the code tests a value by its       *)
(* truth (`if self.recipient:`).                                           *)
(***************************************************************************)
EXTENDS Integers, Sequences, FiniteSets, TLC

(***************************************************************************)
(* Bounds of the model.                                                    *)
(***************************************************************************)
MaxSends == 2

\* M: how many messages each concurrent process appends.
MaxAppends == 2

\* The last value of the wall clock.
MaxClock == 1

\* How many messages the hub routes.
MaxRoutes == 1

\* How many clients close their end of a connection.
MaxGone == 1

\* How many connections the hub accepts.
MaxConns == 3

\* The rows ever inserted into the messages table of the shared database.
MaxRows == 2

\* The lines the hub writes to the client's connections in all.
MaxWire == 2

\* The iterations of the client's wait for a reply (range(10) in the code).
MaxPolls == 2

\* The messages and LIST requests the client writes, and its connections.
MaxClientSends == 2

MaxConnects == 2

(***************************************************************************)
(* Characters and character classes.                                       *)
(***************************************************************************)
NL == "\n"

CR == "\r"

SP == " "

None == << >>

\* Python's str.isspace() for the characters of the model (regex \s).
IsSpace(ch) == ch \in {SP, NL, CR}

\* regex \w for the characters of the model.
IsWord(ch) == ch \in {"a", "b", "c", "l", "x", "y", "A", "D", "E", "G", "K", "M", "N",
                      "S", "T", "0", "1", "2", "3", "4", "_"}

\* The class [\w/.,@-] of FileStorage._extract_recipient.
IsRecipientChar(ch) == IsWord(ch) \/ ch \in {"/", ".", ",", "@", "-"}

\* The class [\w/.-] of the for_me filter of Room.read.
IsForMeChar(ch) == IsWord(ch) \/ ch \in {"/", ".", "-"}

\* The class [\w-] of the hub's mention scan.
IsMentionChar(ch) == IsWord(ch) \/ ch = "-"

(***************************************************************************)
(* Sequence helpers standing for Python's str operations.                  *)
(***************************************************************************)
\* s[i:] with a 0-based i.
Drop(s, i) == IF i >= Len(s) THEN << >> ELSE SubSeq(s, i + 1, Len(s))

\* s[:i] with a 0-based i.
Take(s, i) == IF i >= Len(s) THEN s ELSE SubSeq(s, 1, i)

\* s[i:j], 0-based, Python slice semantics for 0 <= i.
Slice(s, i, j) == IF j <= i THEN << >> ELSE Take(Drop(s, i), j - i)

\* s.startswith(p)
StartsWith(s, p) == Len(s) >= Len(p) /\ SubSeq(s, 1, Len(p)) = p

\* p in s (substring search)
Contains(s, p) == \E i \in 0 .. (Len(s) - Len(p)) : SubSeq(s, i + 1, i + Len(p)) = p

\* ch in s for one character
HasChar(s, ch) == \E i \in 1 .. Len(s) : s[i] = ch

\* s.count(ch)
CountChar(s, ch) == Cardinality({i \in 1 .. Len(s) : s[i] = ch})

\* The 1-based position of the first occurrence of ch at or after position i,
\* Len(s) + 1 when there is none.
RECURSIVE FindChar(_, _, _)
FindChar(s, ch, i) ==
    IF i > Len(s) THEN Len(s) + 1
    ELSE IF s[i] = ch THEN i
    ELSE FindChar(s, ch, i + 1)

\* "".join(parts) / sep.join(parts)
RECURSIVE Join(_, _)
Join(parts, sep) ==
    IF Len(parts) = 0 THEN << >>
    ELSE IF Len(parts) = 1 THEN parts[1]
    ELSE parts[1] \o sep \o Join(Tail(parts), sep)

(***************************************************************************)
(* Path.read_text(): universal newlines turn "\r\n" and "\r" into "\n".    *)
(***************************************************************************)
RECURSIVE ReadText(_)
ReadText(bytes) ==
    IF Len(bytes) = 0 THEN << >>
    ELSE IF bytes[1] = CR
         THEN IF Len(bytes) >= 2 /\ bytes[2] = NL
              THEN <<NL>> \o ReadText(Drop(bytes, 2))
              ELSE <<NL>> \o ReadText(Tail(bytes))
         ELSE <<bytes[1]>> \o ReadText(Tail(bytes))

(***************************************************************************)
(* str.splitlines(): the text cut at every line break, without the breaks, *)
(* and without a trailing empty line.                                      *)
(***************************************************************************)
RECURSIVE SplitLines(_)
SplitLines(text) ==
    IF Len(text) = 0 THEN << >>
    ELSE LET p == FindChar(text, NL, 1)
         IN  <<Take(text, p - 1)>> \o SplitLines(Drop(text, p))

\* log_path.read_text().splitlines()
FileLines(bytes) == SplitLines(ReadText(bytes))


\* s.split(sep) for a one-character separator
RECURSIVE Split(_, _)
Split(s, sep) ==
    LET p == FindChar(s, sep, 1)
    IN  IF p > Len(s) THEN <<s>>
        ELSE <<Take(s, p - 1)>> \o Split(Drop(s, p), sep)

\* The length of the longest prefix of s whose characters all satisfy the class
\* (a greedy regex run); cls is one of the class names below.
InClass(cls, ch) ==
    CASE cls = "space" -> IsSpace(ch)
      [] cls = "recipient" -> IsRecipientChar(ch)
      [] cls = "forme" -> IsForMeChar(ch)
      [] cls = "mention" -> IsMentionChar(ch)
      [] cls = "notbracket" -> ch # "]"

RECURSIVE Run(_, _, _)
Run(s, i, cls) ==
    IF i <= Len(s) /\ InClass(cls, s[i]) THEN 1 + Run(s, i + 1, cls) ELSE 0

\* s.strip()
RECURSIVE RStrip(_)
RStrip(s) ==
    IF Len(s) > 0 /\ IsSpace(s[Len(s)]) THEN RStrip(SubSeq(s, 1, Len(s) - 1)) ELSE s

Strip(s) == RStrip(Drop(s, Run(s, 1, "space")))

(***************************************************************************)
(* Message (storage/base.py).  The message types of the model.             *)
(***************************************************************************)
MSG == <<"M", "S", "G">>

TASK == <<"T", "A", "S", "K">>

EndMarker == <<"<", "<", "<", "E", "N", "D", ">", ">", ">">>

\* Message.create: id 0 until the storage assigns it; the timestamp is the
\* clock of the caller at creation.
Message(id, session_id, msg_type, content, timestamp, recipient) ==
    [id |-> id, session_id |-> session_id, msg_type |-> msg_type,
     content |-> content, timestamp |-> timestamp, recipient |-> recipient]

\* strftime of the clock: one digit stands for the 19 characters
\* YYYY-MM-DDTHH:MM:SS (digits, "-", "T", ":" only).
Timestamp(clock) == <<ToString(clock)>>

\* Message.to_log_line
ToLogLine(m) ==
    LET content == IF m.recipient # None
                   THEN <<"@">> \o m.recipient \o <<SP>> \o m.content
                   ELSE m.content
    IN  IF HasChar(content, NL)
        THEN <<"<", "<", "<", "[">> \o m.timestamp \o <<"]", "[">> \o m.session_id
                 \o <<"]", "[">> \o m.msg_type \o <<"]", ">", ">", ">", NL>>
                 \o content \o <<NL>> \o EndMarker
        ELSE IF m.msg_type # MSG
             THEN <<"[">> \o m.timestamp \o <<"]", SP, "[">> \o m.session_id
                      \o <<"]", SP, "[">> \o m.msg_type \o <<"]", SP>> \o content
             ELSE <<"[">> \o m.timestamp \o <<"]", SP, "[">> \o m.session_id
                      \o <<"]", SP>> \o content

(***************************************************************************)
(* FileStorage's parser (storage/file.py).                                 *)
(***************************************************************************)
\* FileStorage._extract_recipient: re.match(r'^@([\w/.,@-]+)\s+', content)
ExtractRecipient(content) ==
    LET n == Run(content, 2, "recipient")
        w == Run(content, 2 + n, "space")
    IN  IF Len(content) >= 1 /\ content[1] = "@" /\ n >= 1 /\ w >= 1
        THEN [content |-> Drop(content, 1 + n + w),
              recipient |-> SubSeq(content, 2, 1 + n)]
        ELSE [content |-> content, recipient |-> None]

\* One regex group \[([^\]]+)\] at 1-based position i of the line: the
\* position after the closing bracket, 0 when the group does not match.
Group(line, i) ==
    LET n == Run(line, i + 1, "notbracket")
    IN  IF i <= Len(line) /\ line[i] = "[" /\ n >= 1
           /\ i + 1 + n <= Len(line) /\ line[i + 1 + n] = "]"
        THEN i + n + 2
        ELSE 0

GroupText(line, i) == SubSeq(line, i + 1, Group(line, i) - 2)

\* A literal character at position i: the position after it, 0 when absent.
Lit(line, i, ch) == IF i >= 1 /\ i <= Len(line) /\ line[i] = ch THEN i + 1 ELSE 0

NoMessage == [ok |-> FALSE]

\* The content lines of a multi-line message: all_lines[j] while j is in
\* range and the line is not <<<END>>> (j is 1-based here).
RECURSIVE ContentLines(_, _)
ContentLines(all_lines, j) ==
    IF j <= Len(all_lines) /\ all_lines[j] # EndMarker
    THEN <<all_lines[j]>> \o ContentLines(all_lines, j + 1)
    ELSE << >>

Parsed(line_num, session_id, msg_type, timestamp, content) ==
    LET e == ExtractRecipient(content)
    IN  [ok |-> TRUE, id |-> line_num, session_id |-> session_id,
         msg_type |-> msg_type, content |-> e.content, timestamp |-> timestamp,
         recipient |-> e.recipient]

\* FileStorage._parse_line; line_idx is the 0-based index of line in all_lines.
ParseLine(line, line_num, all_lines, line_idx) ==
    LET \* <<<\[([^\]]+)\]\[([^\]]+)\]\[([^\]]+)\]>>>
        h1 == Group(line, 4)
        h2 == IF h1 = 0 THEN 0 ELSE Group(line, h1)
        h3 == IF h2 = 0 THEN 0 ELSE Group(line, h2)
        hdr == h3 # 0 /\ StartsWith(Drop(line, h3 - 1), <<">", ">", ">">>)
        \* \[([^\]]+)\] \[([^\]]+)\] ...
        g1 == Group(line, 1)
        s1 == IF g1 = 0 THEN 0 ELSE Lit(line, g1, SP)
        g2 == IF s1 = 0 THEN 0 ELSE Group(line, s1)
        s2 == IF g2 = 0 THEN 0 ELSE Lit(line, g2, SP)
        \* ... \[([^\]]+)\] (.+)
        g3 == IF s2 = 0 THEN 0 ELSE Group(line, s2)
        s3 == IF g3 = 0 THEN 0 ELSE Lit(line, g3, SP)
        typed == s3 # 0 /\ s3 <= Len(line)
        \* ... (.+)
        untyped == s2 # 0 /\ s2 <= Len(line)
    IN  IF StartsWith(line, <<"<", "<", "<", "[">>)
        THEN IF hdr
             THEN Parsed(line_num, GroupText(line, h1), GroupText(line, h2),
                         GroupText(line, 4),
                         Join(ContentLines(all_lines, line_idx + 2), <<NL>>))
             ELSE NoMessage
        ELSE IF StartsWith(line, <<"[">>)
        THEN IF typed
             THEN Parsed(line_num, GroupText(line, s1), GroupText(line, s2),
                         GroupText(line, 1), Drop(line, s3 - 1))
             ELSE IF untyped
             THEN Parsed(line_num, GroupText(line, s1), MSG,
                         GroupText(line, 1), Drop(line, s2 - 1))
             ELSE NoMessage
        ELSE NoMessage

\* FileStorage._recipient_matches
RecipientMatches(msg_recipient, session_id) ==
    \/ msg_recipient = None
    \/ msg_recipient = <<"*">>
    \/ msg_recipient = session_id
    \/ /\ HasChar(msg_recipient, ",")
       /\ LET recipients == Split(msg_recipient, ",")
          IN  \E k \in 1 .. Len(recipients) : Strip(recipients[k]) = session_id

\* The loop of FileStorage.read_messages from 0-based line index i with the
\* messages collected so far; limit 0 and the filters None mean "absent".
RECURSIVE ReadLoop(_, _, _, _, _, _)
ReadLoop(lines, i, messages, limit, type_filter, recipient) ==
    IF i >= Len(lines) THEN messages
    ELSE LET msg == ParseLine(lines[i + 1], i + 1, lines, i)
             keep == /\ msg.ok
                     /\ ~(type_filter # None /\ msg.msg_type # type_filter)
                     /\ ~(recipient # None
                          /\ ~RecipientMatches(msg.recipient, recipient))
             out == IF keep THEN Append(messages, msg) ELSE messages
             next == IF msg.ok /\ msg.content # << >> /\ HasChar(msg.content, NL)
                     THEN i + CountChar(msg.content, NL) + 2
                     ELSE i + 1
         IN  IF limit # 0 /\ Len(out) >= limit THEN out
             ELSE ReadLoop(lines, next, out, limit, type_filter, recipient)

\* FileStorage.read_messages; lines is log_path.read_text().splitlines()
ReadMessages(lines, since_id, limit, msg_type, recipient) ==
    ReadLoop(lines, since_id, << >>, limit, msg_type, recipient)

\* FileStorage.get_message_count
MessageCount(lines) == Len(lines)


(***************************************************************************)
(* Room.read's filters over raw lines (rooms/base.py).                     *)
(***************************************************************************)
Bracketed(t) == <<"[">> \o t \o <<"]">>

\* The type filter of Room.read (lines 107-127): the loop from 0-based index
\* i with the lines kept so far.
RECURSIVE TypeFilterLoop(_, _, _, _)
TypeFilterLoop(new_lines, i, filtered, type_upper) ==
    IF i >= Len(new_lines) THEN filtered
    ELSE LET line == new_lines[i + 1]
         IN  IF Contains(line, Bracketed(type_upper))
             THEN TypeFilterLoop(new_lines, i + 1, Append(filtered, line), type_upper)
             ELSE IF /\ StartsWith(line, <<"<", "<", "<", "[">>)
                     /\ Contains(line, <<"]">> \o Bracketed(type_upper) \o <<">", ">", ">">>)
             THEN LET body == ContentLines(new_lines, i + 2)
                      j == i + 1 + Len(body)
                      tail == IF j < Len(new_lines) THEN <<new_lines[j + 1]>> ELSE << >>
                  IN  TypeFilterLoop(new_lines, j + 1,
                                     Append(filtered, line) \o body \o tail, type_upper)
             ELSE TypeFilterLoop(new_lines, i + 1, filtered, type_upper)

TypeFilter(new_lines, msg_type) ==
    IF msg_type = None THEN new_lines
    ELSE TypeFilterLoop(new_lines, 0, << >>, msg_type)

\* re.search(r'\] @([\w/.-]+)\s', line): the text of group 1 of the leftmost
\* match, None when the line has no match.
RECURSIVE ForMeSearch(_, _)
ForMeSearch(line, i) ==
    IF i + 3 > Len(line) THEN None
    ELSE LET n == Run(line, i + 3, "forme")
         IN  IF /\ line[i] = "]" /\ line[i + 1] = SP /\ line[i + 2] = "@"
                /\ n >= 1
                /\ i + 3 + n <= Len(line) /\ IsSpace(line[i + 3 + n])
             THEN SubSeq(line, i + 3, i + 2 + n)
             ELSE ForMeSearch(line, i + 1)

\* The for_me decision of Room.read for one line (lines 132-143).
ForMeKeeps(line, session_id) ==
    LET recipient == ForMeSearch(line, 1)
    IN  IF recipient # None
        THEN recipient = session_id \/ recipient = <<"*">>
        ELSE TRUE

RECURSIVE ForMeFilterLoop(_, _)
ForMeFilterLoop(new_lines, session_id) ==
    IF Len(new_lines) = 0 THEN << >>
    ELSE (IF ForMeKeeps(new_lines[1], session_id) THEN <<new_lines[1]>> ELSE << >>)
             \o ForMeFilterLoop(Tail(new_lines), session_id)

ForMeFilter(new_lines, for_me, session_id) ==
    IF for_me THEN ForMeFilterLoop(new_lines, session_id) ELSE new_lines

\* if limit and len(new_lines) > limit: new_lines = new_lines[:limit]
ApplyLimit(new_lines, limit) ==
    IF limit # 0 /\ Len(new_lines) > limit THEN Take(new_lines, limit) ELSE new_lines

\* The batch Room.read computes from the raw lines and the start position.
ReadBatch(lines, last_line, session_id, limit, msg_type, for_me) ==
    ApplyLimit(ForMeFilter(TypeFilter(Drop(lines, last_line), msg_type),
                           for_me, session_id), limit)

\* A read that advances the pointer only past the lines it returned.
ReadPointerAfterReturned(lines, last_line, new_lines) == last_line + Len(new_lines)

\* The pointer Room.read stores (line 151): always the latest line.
ReadPointerAfter(lines, last_line, new_lines) == Len(lines)

\* The result of Room.read (lines 153-160); kind "none" is Python's None.
ReadResult(lines, new_lines, quiet) ==
    IF quiet /\ Len(new_lines) = 0
    THEN [kind |-> "none", messages |-> << >>, new_count |-> 0, total |-> 0]
    ELSE [kind |-> "read", messages |-> new_lines, new_count |-> Len(new_lines),
          total |-> Len(lines)]


(***************************************************************************)
(* The state: one room directory of FileStorage.                           *)
(*   log      messages.log as every reader sees it: the lines of           *)
(*            read_text().splitlines().  Every write to the file ends with *)
(*            a line break, so the lines of the file are the lines of its  *)
(*            writes in order; each write is split by FileLines.           *)
(*   ptr      sessions/<id>: the read pointer file of each reader, NoFile  *)
(*            when it does not exist                                       *)
(*   pending  pending/<id>: <<start, end>> or None                         *)
(*   now      the wall clock, in seconds                                   *)
(*   sent     history: the messages append_message has returned            *)
(*   ret      history: the last call and what it returned                  *)
(* The processes that work on the directory step by step:                  *)
(*   app      each sending process inside Room.send / append_message       *)
(*   lock     the holder of the flock on .lock, None when it is free       *)
(*   rd       the reader inside Room.read / pending / check                *)
(*   dm       the listen daemon inside one iteration of its loop           *)
(*   delivered  history: the lines the reader's calls have returned        *)
(* The hub (scripts/hub.py), which appends to the same messages.log:       *)
(*   clients  NClaudeHub.clients: session id -> socket                     *)
(*   sockets  NClaudeHub.sockets: socket -> session id, None before its    *)
(*            REGISTER                                                     *)
(*   conns    every connection: "free" (not made yet), "open", "peer_gone" *)
(*            (the client end is closed, the hub's end is not) or "closed" *)
(*            (the hub has closed its end)                                 *)
(*   outbox   the routed messages and SENT confirmations the hub has       *)
(*            written to each connection                                   *)
(*   routed   history: one record per _route_message call                  *)
(*   hub      "running", or "blocked" when the event loop waits for a lock *)
(*            it already holds                                             *)
(* The shared database of SQLiteStorage (storage/sqlite.py):               *)
(*   sql      the tables messages, read_pointers and pending, and the last *)
(*            AUTOINCREMENT id (seq)                                       *)
(*   sqlop    history: the last call on the database                       *)
(* The hub process and a termination signal (scripts/hub.py, main):        *)
(*   art      the listening socket, the socket file and the pid file of    *)
(*            the hub, and whether SIGINT or SIGTERM has arrived           *)
(* A client of the hub (scripts/client.py) and its embedding process:      *)
(*   cli      the NClaudeClient object: connected, the receive thread, the *)
(*            message queue and the inbox file                             *)
(*   wire     the other side of the client's connection: the lines the hub *)
(*            has written and the client has not read, the hub's end, the  *)
(*            messages the hub has received, the connections made          *)
(*   call     the call of the embedding process in progress, its result,   *)
(*            and history: the last step and what receive() returned       *)
(* The bytes the hub reads from a client socket:                           *)
(*   rx       history: the last data handled by _handle_client_data        *)
(***************************************************************************)
VARIABLES log, ptr, pending, now, sent, ret,
          app, lock, rd, dm, delivered,
          clients, sockets, conns, outbox, routed, hub,
          sql, sqlop,
          art,
          cli, wire, call,
          rx

roomVars == <<ptr, pending, ret>>

appendVars == <<app, lock>>

raceVars == <<rd, dm, delivered>>

hubVars == <<clients, sockets, conns, outbox, routed, hub>>

sqlVars == <<sql, sqlop>>

sigVars == <<art>>

clientVars == <<cli, wire, call>>

dataVars == <<rx>>

\* What no step on the file log or on the hub touches.
extVars == <<sqlVars, sigVars, clientVars, dataVars>>

vars == <<log, now, sent, roomVars, appendVars, raceVars, hubVars, extVars>>

\* The session ids of the model; every session has its own pointer file and
\* its own pending file, and no call of one session touches another's.
Sessions == {<<"a">>, <<"b">>}

\* The sessions that read in the room specifications (the other one sends).
Readers == {<<"a">>}

NoFile == -1

\* The connections, in the order of their socket objects.
Conns == 1 .. MaxConns

\* FileStorage.get_read_pointer
GetReadPointer(ptrs, session_id) ==
    IF ptrs[session_id] = NoFile THEN 0 ELSE ptrs[session_id]

\* A write that puts the id into the pointer file of every session.
SetEveryPointer(ptrs, session_id, message_id) == [r \in Sessions |-> message_id]

\* FileStorage.set_read_pointer: the file sessions/<session_id>
SetReadPointer(ptrs, session_id, message_id) == [ptrs EXCEPT ![session_id] = message_id]

\* FileStorage.get_sessions
GetSessions(ptrs) == {r \in Sessions : ptrs[r] # NoFile}

\* f.write(line) of FileStorage.append_message, line = to_log_line() + "\n":
\* the lines of the log after the write.
WriteLog(lines, message) == lines \o FileLines(ToLogLine(message) \o <<NL>>)

\* The id FileStorage.append_message gives the message (line 59): the number
\* of lines of the log it reads back.
AssignedId(lines) == Len(lines)

\* What a call returned; pmessages is check's pending_messages; before is the
\* read pointer of the session when the call began; again says that the call
\* before this one was the same operation of the same session.
Ret(op, session, kind, messages, pmessages, count, total, range, args) ==
    [op |-> op, session |-> session, kind |-> kind, messages |-> messages,
     pmessages |-> pmessages, count |-> count, total |-> total, range |-> range,
     args |-> args,
     before |-> IF session \in Sessions THEN GetReadPointer(ptr, session) ELSE 0,
     again |-> (ret.op = op /\ ret.session = session)]

\* The values the client's methods return, with their Python type.
RNone == [type |-> "None", val |-> << >>]

RBool(b) == [type |-> "bool", val |-> << << <<"value", b>> >> >>]

RDict(msg) == [type |-> "dict", val |-> <<msg>>]

RList(msgs) == [type |-> "list", val |-> msgs]

NoArgs == [all |-> FALSE, quiet |-> FALSE, filtered |-> FALSE]

Init ==
    /\ log = << >>
    /\ ptr = [r \in Sessions |-> NoFile]
    /\ pending = [r \in Sessions |-> None]
    /\ now = 0
    /\ sent = << >>
    /\ ret = [op |-> "init", session |-> None, kind |-> "none", messages |-> << >>,
              pmessages |-> << >>, count |-> 0, total |-> 0, range |-> None,
              args |-> NoArgs, before |-> 0, again |-> FALSE]
    /\ app = [p \in Sessions |-> [pc |-> "create", done |-> 0, message |-> None]]
    /\ lock = None
    /\ rd = [pc |-> "idle", last_line |-> 0, lines |-> << >>, range |-> None,
             incheck |-> FALSE]
    /\ dm = [pc |-> "pointer", last_read |-> 0, total_lines |-> 0]
    /\ delivered = {}
    /\ clients = << >>
    /\ sockets = << >>
    /\ conns = [c \in Conns |-> "free"]
    /\ outbox = [c \in Conns |-> << >>]
    /\ routed = << >>
    /\ hub = "running"
    /\ sql = [messages |-> << >>, read_pointers |-> << >>, pending |-> << >>,
              seq |-> 0]
    /\ sqlop = [op |-> "init", room |-> None, session |-> None,
                pending |-> FALSE, set_by |-> << >>]
    /\ art = [server |-> "listening", socket_file |-> TRUE, pid_file |-> TRUE,
              signalled |-> FALSE]
    /\ cli = [connected |-> FALSE, thread |-> "none", message_queue |-> << >>,
              inbox |-> << >>, sock |-> "none", stop |-> FALSE]
    /\ wire = [to_client |-> << >>, hub_end |-> "none", listening |-> TRUE,
               msgs |-> 0, lists |-> 0, sents |-> 0, made |-> 0, written |-> 0]
    /\ call = [op |-> "idle", want |-> "", polls |-> 0, body |-> "",
               result |-> RNone, last |-> "init", taken |-> << >>]
    /\ rx = [sock |-> 0, data |-> << >>]

\* Room.send: Message.create, then storage.append_message; the result holds
\* the content ("sent": content), kept as the one element of messages.
Send(session_id, content, msg_type, recipient) ==
    /\ Len(sent) < MaxSends
    /\ LET message == Message(0, session_id, msg_type, content, Timestamp(now), recipient)
           after == WriteLog(log, message)
       IN  /\ log' = after
           /\ sent' = Append(sent, [message EXCEPT !.id = AssignedId(after)])
    /\ ret' = Ret("send", session_id, "sent", <<content>>, << >>, 0, 0, None, NoArgs)
    /\ UNCHANGED <<ptr, pending, now, appendVars, raceVars, hubVars, extVars>>

\* Room.read as a function of the files: the pointer files after the call and
\* the result.
RoomRead(ptrs, lines, session_id, all_messages, quiet, limit, msg_type, for_me) ==
    LET last_line == IF all_messages THEN 0 ELSE GetReadPointer(ptrs, session_id)
        new_lines == ReadBatch(lines, last_line, session_id, limit, msg_type, for_me)
    IN  [ptr |-> SetReadPointer(ptrs, session_id,
                                ReadPointerAfter(lines, last_line, new_lines)),
         result |-> ReadResult(lines, new_lines, quiet)]

\* A slice that leaves out the first line of the range.
PendingSliceShort(lines, range) == Slice(lines, range[1] + 1, range[2])

\* What Room.pending does with the marker it found (lines 204-217): the slice
\* it returns, and the pointer it stores.
PendingSlice(lines, range) == Slice(lines, range[1], range[2])

PendingPointer(range) == range[2]

\* A clear_pending that leaves the pending file in place.
ClearPendingKept(pend, session_id) == pend

\* FileStorage.clear_pending
ClearPending(pend, session_id) == [pend EXCEPT ![session_id] = None]

\* Room.pending as a function of the files.
RoomPending(ptrs, pend, lines, session_id) ==
    LET pending_range == pend[session_id]
    IN  IF pending_range = None
        THEN [ptr |-> ptrs, pending |-> pend, kind |-> "nopending",
              messages |-> << >>, range |-> None]
        ELSE [ptr |-> SetReadPointer(ptrs, session_id, PendingPointer(pending_range)),
              pending |-> ClearPending(pend, session_id),
              kind |-> "pending",
              messages |-> PendingSlice(lines, pending_range),
              range |-> pending_range]

\* The for_me filter Room.check applies to the pending lines (lines 234-247):
\* f"@{session_id}" in msg or not msg.startswith("@")
RECURSIVE CheckFilter(_, _)
CheckFilter(pending_msgs, session_id) ==
    IF Len(pending_msgs) = 0 THEN << >>
    ELSE (IF \/ Contains(pending_msgs[1], <<"@">> \o session_id)
             \/ ~StartsWith(pending_msgs[1], <<"@">>)
          THEN <<pending_msgs[1]>> ELSE << >>)
             \o CheckFilter(Tail(pending_msgs), session_id)

\* Room.read
Read(session_id, all_messages, quiet, limit, msg_type, for_me) ==
    LET r == RoomRead(ptr, log, session_id, all_messages, quiet, limit, msg_type, for_me)
    IN  /\ ptr' = r.ptr
        /\ ret' = Ret("read", session_id, r.result.kind, r.result.messages, << >>,
                      r.result.new_count, r.result.total, None,
                      [all |-> all_messages, quiet |-> quiet,
                       filtered |-> (limit # 0 \/ msg_type # None \/ for_me)])
        /\ UNCHANGED <<log, pending, now, sent, appendVars, raceVars, hubVars, extVars>>

\* Room.pending
Pending(session_id) ==
    LET p == RoomPending(ptr, pending, log, session_id)
    IN  /\ ptr' = p.ptr
        /\ pending' = p.pending
        /\ ret' = Ret("pending", session_id, p.kind, p.messages, << >>,
                      Len(p.messages), 0, p.range, NoArgs)
        /\ UNCHANGED <<log, now, sent, appendVars, raceVars, hubVars, extVars>>

\* Room.check: pending, then read, then the filter of the pending lines.
Check(session_id, for_me) ==
    LET p == RoomPending(ptr, pending, log, session_id)
        r == RoomRead(p.ptr, log, session_id, FALSE, FALSE, 0, None, for_me)
        pending_msgs == IF for_me /\ Len(p.messages) > 0
                        THEN CheckFilter(p.messages, session_id)
                        ELSE p.messages
    IN  /\ ptr' = r.ptr
        /\ pending' = p.pending
        /\ ret' = Ret("check", session_id, p.kind, r.result.messages, pending_msgs,
                      r.result.new_count, Len(pending_msgs) + r.result.new_count,
                      p.range,
                      [all |-> FALSE, quiet |-> FALSE, filtered |-> for_me])
        /\ UNCHANGED <<log, now, sent, appendVars, raceVars, hubVars, extVars>>

\* FileStorage.set_pending_range
SetPendingRange(pend, session_id, start, end) ==
    [pend EXCEPT ![session_id] = <<start, end>>]

\* One iteration of cmd_listen's loop (lines 59-91) for a session.
Listen(session_id) ==
    LET last_read == GetReadPointer(ptr, session_id)
        total_lines == MessageCount(log)
    IN  IF total_lines > last_read
        THEN /\ pending' = SetPendingRange(pending, session_id, last_read, total_lines)
             /\ ret' = Ret("listen", session_id, "new_messages", << >>, << >>,
                           total_lines - last_read, 0, <<last_read, total_lines>>, NoArgs)
             /\ UNCHANGED <<log, ptr, now, sent, appendVars, raceVars, hubVars, extVars>>
        ELSE /\ ret' = Ret("listen", session_id, "idle", << >>, << >>, 0, 0, None, NoArgs)
             /\ UNCHANGED <<log, ptr, pending, now, sent, appendVars, raceVars, hubVars, extVars>>

\* Room.clear: FileStorage.clear removes the room's directory.
Clear ==
    /\ log' = << >>
    /\ ptr' = [r \in Sessions |-> NoFile]
    /\ pending' = [r \in Sessions |-> None]
    /\ sent' = << >>
    /\ ret' = Ret("clear", None, "cleared", << >>, << >>, 0, 0, None, NoArgs)
    /\ UNCHANGED <<now, appendVars, raceVars, hubVars, extVars>>

(***************************************************************************)
(* The room under sequential calls: every handler is one step.             *)
(***************************************************************************)
\* The sends of the room specification: sender, content, type, recipient.
RoomSends ==
    { <<<<"b">>, <<"x">>, MSG, None>>,
      <<<<"a">>, <<"x">>, TASK, <<"b">>>>,
      <<<<"b">>, <<"x", NL, "y">>, MSG, None>>,
      <<<<"b">>, << >>, MSG, None>> }

\* The filters of the reads: limit (0: absent), msg_type, for_me.
ReadFilters ==
    { <<0, None, FALSE>>, <<1, None, FALSE>>, <<0, TASK, FALSE>>, <<0, None, TRUE>> }

Next ==
    \/ \E m \in RoomSends : Send(m[1], m[2], m[3], m[4])
    \/ \E r \in Readers, all_messages \in BOOLEAN, quiet \in BOOLEAN, f \in ReadFilters :
            Read(r, all_messages, quiet, f[1], f[2], f[3])
    \/ \E r \in Readers : Pending(r)
    \/ \E r \in Readers, for_me \in BOOLEAN : Check(r, for_me)
    \/ \E r \in Readers : Listen(r)
    \/ Clear

Spec == Init /\ [][Next]_vars


(***************************************************************************)
(* The log under a single writer: Room.send with contents, types and       *)
(* recipients of every shape; the reads are computed on the log.           *)
(***************************************************************************)
LogContents ==
    { <<"x">>,
      <<"x", NL, "y">>,
      <<"x", NL>> \o EndMarker \o <<NL, "[", "0", "]", SP, "[", "b", "]", SP, "y">>,
      <<"x", CR, "y">>,
      <<"x", SP, "[", "T", "A", "S", "K", "]">> }

LogTypes == {MSG, TASK}

LogRecipients == {None, <<"b">>, <<"*">>, <<"a", ",", "b">>, <<"a", "l", "l">>}

NextLog ==
    \E c \in LogContents, t \in LogTypes, rcpt \in LogRecipients :
        Send(<<"a">>, c, t, rcpt)

SpecLog == Init /\ [][NextLog]_vars

(***************************************************************************)
(* Concurrent senders: K = |Sessions| processes, each calling Room.send    *)
(* MaxAppends times.  A step is one statement of Room.send /               *)
(* FileStorage.append_message: Message.create, the flock, the write, the   *)
(* count of the lines read back, the release of the flock.                 *)
(***************************************************************************)
\* The content of the k-th message of process p: one line for "a", two for
\* "b".
AppendContent(p, k) ==
    IF p = <<"a">> THEN <<"x", ToString(k)>> ELSE <<"y", NL, ToString(k)>>

\* A lock that every process gets at once.
LockShared(holder) == TRUE

\* fcntl.flock(lock_fd, LOCK_EX) of append_message (line 54) returns only
\* while no other process holds the lock.
LockFree(holder) == holder = None

\* Room.send, lines 60-66: Message.create takes the timestamp.
ACreate(p) ==
    /\ app[p].pc = "create" /\ app[p].done < MaxAppends
    /\ app' = [app EXCEPT ![p].pc = "lock",
                          ![p].message = Message(0, p, MSG,
                                                 AppendContent(p, app[p].done + 1),
                                                 Timestamp(now), None)]
    /\ UNCHANGED <<log, now, sent, lock, roomVars, raceVars, hubVars, extVars>>

\* append_message, lines 53-54: the flock on the lock file.
ALock(p) ==
    /\ app[p].pc = "lock" /\ LockFree(lock)
    /\ lock' = p
    /\ app' = [app EXCEPT ![p].pc = "write"]
    /\ UNCHANGED <<log, now, sent, roomVars, raceVars, hubVars, extVars>>

\* append_message, lines 56-57: the line is written and the file closed.
AWrite(p) ==
    /\ app[p].pc = "write"
    /\ log' = WriteLog(log, app[p].message)
    /\ app' = [app EXCEPT ![p].pc = "count"]
    /\ UNCHANGED <<now, sent, lock, roomVars, raceVars, hubVars, extVars>>

\* append_message, line 59: the id is the line count read back.
ACount(p) ==
    /\ app[p].pc = "count"
    /\ app' = [app EXCEPT ![p].pc = "unlock", ![p].message.id = AssignedId(log)]
    /\ UNCHANGED <<log, now, sent, lock, roomVars, raceVars, hubVars, extVars>>

\* append_message, lines 60-63: the lock is released and the message
\* returned.
AUnlock(p) ==
    /\ app[p].pc = "unlock"
    /\ lock' = None
    /\ sent' = Append(sent, app[p].message)
    /\ app' = [app EXCEPT ![p].pc = "create", ![p].done = @ + 1, ![p].message = None]
    /\ UNCHANGED <<log, now, roomVars, raceVars, hubVars, extVars>>

\* The wall clock advances.
Tick ==
    /\ now < MaxClock
    /\ now' = now + 1
    /\ UNCHANGED <<log, sent, roomVars, appendVars, raceVars, hubVars, extVars>>

NextAppend ==
    \/ \E p \in Sessions : ACreate(p)
    \/ \E p \in Sessions : ALock(p)
    \/ \E p \in Sessions : AWrite(p)
    \/ \E p \in Sessions : ACount(p)
    \/ \E p \in Sessions : AUnlock(p)
    \/ Tick

SpecAppend == Init /\ [][NextAppend]_vars

(***************************************************************************)
(* One reader, its listen daemon and a sender, step by step.  A step of    *)
(* the reader or of the daemon is one call of FileStorage; a send is one   *)
(* step (the flock orders the sends).  Every call of the reader is         *)
(* unfiltered and unlimited, and the room is never cleared.                *)
(***************************************************************************)
Range(s) == {s[i] : i \in 1 .. Len(s)}

Idle == [pc |-> "idle", last_line |-> 0, lines |-> << >>, range |-> None,
         incheck |-> FALSE]

Polling == [pc |-> "pointer", last_read |-> 0, total_lines |-> 0]

\* The k-th message of the sender: every line of the log is different.
RaceSend ==
    Send(<<"b">>, <<"m", ToString(Len(sent) + 1)>>, MSG, None)

\* Room.read, lines 98-100, and Room.check, line 230: the read begins.
RPointer(r, all_messages) ==
    /\ \/ rd.pc = "idle"
       \/ rd.pc = "check_read" /\ ~all_messages
    /\ rd' = [rd EXCEPT !.pc = "read_lines",
                        !.last_line = IF all_messages THEN 0
                                      ELSE GetReadPointer(ptr, r)]
    /\ UNCHANGED <<log, now, sent, roomVars, appendVars, dm, delivered, hubVars, extVars>>

\* Room.read, line 103: get_raw_lines
RLines(r) ==
    /\ rd.pc = "read_lines"
    /\ rd' = [rd EXCEPT !.pc = "read_set", !.lines = log]
    /\ UNCHANGED <<log, now, sent, roomVars, appendVars, dm, delivered, hubVars, extVars>>

\* Room.read, lines 104-160: the batch, set_read_pointer, the return.
RSet(r) ==
    /\ rd.pc = "read_set"
    /\ LET new_lines == ReadBatch(rd.lines, rd.last_line, r, 0, None, FALSE)
       IN  /\ ptr' = SetReadPointer(ptr, r,
                                     ReadPointerAfter(rd.lines, rd.last_line, new_lines))
           /\ delivered' = delivered \cup Range(new_lines)
    /\ rd' = Idle
    /\ UNCHANGED <<log, now, sent, pending, ret, appendVars, dm, hubVars, extVars>>

\* Room.pending, lines 199-204, called by itself or by Room.check (line 229):
\* get_pending_range.
PRange(r, incheck) ==
    /\ rd.pc = "idle"
    /\ rd' = IF pending[r] = None
             THEN [Idle EXCEPT !.pc = IF incheck THEN "check_read" ELSE "idle"]
             ELSE [Idle EXCEPT !.pc = "pend_lines", !.range = pending[r],
                               !.incheck = incheck]
    /\ UNCHANGED <<log, now, sent, roomVars, appendVars, dm, delivered, hubVars, extVars>>

\* get_pending_range while the daemon is inside write_text of the pending
\* file: the file is open and truncated, the reader finds it empty, unlinks
\* it (line 286) and returns None; what the daemon then writes is lost with
\* the unlinked file.
PRangeTorn(r, incheck) ==
    /\ rd.pc = "idle"
    /\ dm.pc = "write" /\ dm.total_lines > dm.last_read
    /\ pending' = ClearPending(pending, r)
    /\ dm' = Polling
    /\ rd' = [Idle EXCEPT !.pc = IF incheck THEN "check_read" ELSE "idle"]
    /\ UNCHANGED <<log, now, sent, ptr, ret, appendVars, delivered, hubVars, extVars>>

\* Room.pending, line 205: get_raw_lines
PLines(r) ==
    /\ rd.pc = "pend_lines"
    /\ rd' = [rd EXCEPT !.pc = "pend_clear", !.lines = log]
    /\ UNCHANGED <<log, now, sent, roomVars, appendVars, dm, delivered, hubVars, extVars>>

\* Room.pending, line 209: clear_pending
PClear(r) ==
    /\ rd.pc = "pend_clear"
    /\ pending' = ClearPending(pending, r)
    /\ rd' = [rd EXCEPT !.pc = "pend_set"]
    /\ UNCHANGED <<log, now, sent, ptr, ret, appendVars, dm, delivered, hubVars, extVars>>

\* Room.pending, lines 206 and 210-217: set_read_pointer and the return of
\* the slice.
PSet(r) ==
    /\ rd.pc = "pend_set"
    /\ ptr' = SetReadPointer(ptr, r, PendingPointer(rd.range))
    /\ delivered' = delivered \cup Range(PendingSlice(rd.lines, rd.range))
    /\ rd' = [Idle EXCEPT !.pc = IF rd.incheck THEN "check_read" ELSE "idle"]
    /\ UNCHANGED <<log, now, sent, pending, ret, appendVars, dm, hubVars, extVars>>

\* cmd_listen, line 62: get_read_pointer.  While the reader is inside
\* write_text of the pointer file, the daemon can find the file empty,
\* which reads as 0.
DPointer(r, torn) ==
    /\ dm.pc = "pointer"
    /\ torn => rd.pc \in {"read_set", "pend_set"}
    /\ dm' = [dm EXCEPT !.pc = "count",
                        !.last_read = IF torn THEN 0 ELSE GetReadPointer(ptr, r)]
    /\ UNCHANGED <<log, now, sent, roomVars, appendVars, rd, delivered, hubVars, extVars>>

\* cmd_listen, line 65: get_message_count
DCount(r) ==
    /\ dm.pc = "count"
    /\ dm' = [dm EXCEPT !.pc = "write", !.total_lines = MessageCount(log)]
    /\ UNCHANGED <<log, now, sent, roomVars, appendVars, rd, delivered, hubVars, extVars>>

\* cmd_listen, lines 68-88: set_pending_range when there are new lines.
DWrite(r) ==
    /\ dm.pc = "write"
    /\ pending' = IF dm.total_lines > dm.last_read
                  THEN SetPendingRange(pending, r, dm.last_read, dm.total_lines)
                  ELSE pending
    /\ dm' = Polling
    /\ UNCHANGED <<log, now, sent, ptr, ret, appendVars, rd, delivered, hubVars, extVars>>

ReaderStep(r) ==
    \/ \E all_messages \in BOOLEAN : RPointer(r, all_messages)
    \/ RLines(r)
    \/ RSet(r)
    \/ \E incheck \in BOOLEAN : PRange(r, incheck)
    \/ \E incheck \in BOOLEAN : PRangeTorn(r, incheck)
    \/ PLines(r)
    \/ PClear(r)
    \/ PSet(r)

DaemonStep(r) ==
    \/ \E torn \in BOOLEAN : DPointer(r, torn)
    \/ DCount(r)
    \/ DWrite(r)

NextRace ==
    \/ RaceSend
    \/ \E r \in Readers : ReaderStep(r)
    \/ \E r \in Readers : DaemonStep(r)

SpecRace == Init /\ [][NextRace]_vars

\* The reader keeps calling Room.read, and every call it has begun runs to
\* its return.
FairReader ==
    \A r \in Readers :
        /\ SF_vars(RPointer(r, FALSE))
        /\ WF_vars(RLines(r)) /\ WF_vars(RSet(r))
        /\ WF_vars(PLines(r)) /\ WF_vars(PClear(r)) /\ WF_vars(PSet(r))

SpecRaceFair == SpecRace /\ FairReader

(***************************************************************************)
(* The hub (scripts/hub.py).  A step is one handler of the event loop run  *)
(* to its end, for one message read from a socket, or a client closing its *)
(* end of a connection.  The hub has one thread; the handler that blocks   *)
(* blocks the loop for good.                                               *)
(***************************************************************************)
\* The session ids clients register under.
HubIds == {<<"a">>, <<"b">>, <<"c">>}

\* The REGISTER messages of the clients: the connection and the session id.
\* Connection 2 can take the id of connection 1, and connections 2 and 3 can
\* register a second time under another id.
Registers ==
    { <<1, <<"a">>>>, <<2, <<"b">>>>, <<2, <<"a">>>>, <<3, <<"c">>>>, <<3, <<"b">>>> }

\* The bodies of the messages sent through the hub.
HubBodies ==
    { <<"x">>,
      <<"@", "b", SP, "x">>,
      <<"@", "b", SP, "@", "c", SP, "x">>,
      <<"x", NL, "y">> }

\* d[k] = v and d.pop(k, None) on a dict
DictSet(d, k, v) == [x \in (DOMAIN d) \cup {k} |-> IF x = k THEN v ELSE d[x]]

DictPop(d, k) == [x \in (DOMAIN d) \ {k} |-> d[x]]

\* set(re.findall(r'@([\w-]+)', body)), scanning from position i
RECURSIVE FindMentions(_, _)
FindMentions(body, i) ==
    IF i > Len(body) THEN {}
    ELSE LET n == Run(body, i + 1, "mention")
         IN  IF body[i] = "@" /\ n > 0
             THEN {SubSeq(body, i + 1, i + n)} \cup FindMentions(body, i + n + 1)
             ELSE FindMentions(body, i + 1)

Mentions(body) == FindMentions(body, 1)

\* str() of the sender in the f-strings of _log_message: a socket that has
\* not registered has the id None.
SenderText(sender) == IF sender = None THEN <<"N", "o", "n", "e">> ELSE sender

\* _log_message, lines 279-291: the text written for a message.
HubLogText(msg) ==
    IF HasChar(msg.body, NL)
    THEN <<"<", "<", "<", "[">> \o msg.timestamp \o <<"]", "[">> \o SenderText(msg.from)
             \o <<"]", "[">> \o msg.type \o <<"]", ">", ">", ">", NL>>
             \o msg.body \o <<NL>> \o EndMarker \o <<NL>>
    ELSE IF msg.type # MSG
    THEN <<"[">> \o msg.timestamp \o <<"]", SP, "[">> \o SenderText(msg.from)
             \o <<"]", SP, "[">> \o msg.type \o <<"]", SP>> \o msg.body \o <<NL>>
    ELSE <<"[">> \o msg.timestamp \o <<"]", SP, "[">> \o SenderText(msg.from)
             \o <<"]", SP>> \o msg.body \o <<NL>>

\* A hub that writes every message twice.
HubLogTwice(lines, msg) ==
    lines \o FileLines(HubLogText(msg)) \o FileLines(HubLogText(msg))

\* _log_message, lines 294-295: open(LOG_PATH, "a") and write.
HubLog(lines, msg) == lines \o FileLines(HubLogText(msg))

\* sock.sendall raises on a connection whose client end is closed, and on a
\* socket the hub has closed itself.
SendFails(cn, sock) == cn[sock] # "open"

\* _disconnect_client, on the registry st = [clients, sockets, conns].
DisconnectClient(st, sock) ==
    LET session_id == IF sock \in DOMAIN st.sockets THEN st.sockets[sock] ELSE None
    IN  [clients |-> IF session_id # None THEN DictPop(st.clients, session_id)
                     ELSE st.clients,
         sockets |-> DictPop(st.sockets, sock),
         conns |-> [st.conns EXCEPT ![sock] = "closed"]]

\* The orders in which a loop can go through a set or a dict.
Orders(S) ==
    {f \in [1 .. Cardinality(S) -> S] :
        \A i, j \in 1 .. Cardinality(S) : i # j => f[i] # f[j]}

\* The loop of _send_to_socket calls of _route_message (lines 245-247 and
\* 257-259), which runs with self.lock held: the first send that fails calls
\* _disconnect_client, which waits for self.lock, and nothing more is sent.
RECURSIVE Deliver(_, _, _, _)
Deliver(targets, cn, box, item) ==
    IF Len(targets) = 0 THEN [outbox |-> box, failed |-> FALSE]
    ELSE IF SendFails(cn, targets[1]) THEN [outbox |-> box, failed |-> TRUE]
    ELSE Deliver(Tail(targets), cn,
                 [box EXCEPT ![targets[1]] = Append(@, item)], item)

\* _handle_new_connection: the connections are accepted in the order of
\* their numbers.
HubAccept(sock) ==
    /\ hub = "running"
    /\ conns[sock] = "free"
    /\ \A c \in Conns : c < sock => conns[c] # "free"
    /\ conns' = [conns EXCEPT ![sock] = "open"]
    /\ sockets' = DictSet(sockets, sock, None)
    /\ UNCHANGED <<log, now, sent, roomVars, appendVars, raceVars,
                   clients, outbox, routed, hub, extVars>>

\* The client closes its end of the connection, or dies.
PeerClose(sock) ==
    /\ conns[sock] = "open"
    /\ Cardinality({c \in Conns : conns[c] \in {"peer_gone", "closed"}}) < MaxGone
    /\ conns' = [conns EXCEPT ![sock] = "peer_gone"]
    /\ UNCHANGED <<log, now, sent, roomVars, appendVars, raceVars,
                   clients, sockets, outbox, routed, hub, extVars>>

\* _handle_client_data, lines 149-154: recv returns no data.
HubEOF(sock) ==
    /\ hub = "running"
    /\ sock \in DOMAIN sockets /\ conns[sock] = "peer_gone"
    /\ LET st == DisconnectClient([clients |-> clients, sockets |-> sockets,
                                   conns |-> conns], sock)
       IN  /\ clients' = st.clients
           /\ sockets' = st.sockets
           /\ conns' = st.conns
    /\ UNCHANGED <<log, now, sent, roomVars, appendVars, raceVars,
                   outbox, routed, hub, extVars>>

\* _process_message, lines 190-205: a REGISTER read from the socket (the
\* client may have closed its end after sending it), and the REGISTERED
\* reply, sent without the lock.
HubRegister(sock, session_id) ==
    /\ hub = "running"
    /\ sock \in DOMAIN sockets /\ conns[sock] \in {"open", "peer_gone"}
    /\ LET st1 == [clients |-> DictSet(clients, session_id, sock),
                   sockets |-> DictSet(sockets, sock, session_id),
                   conns |-> conns]
           st2 == IF SendFails(conns, sock) THEN DisconnectClient(st1, sock) ELSE st1
       IN  /\ clients' = st2.clients
           /\ sockets' = st2.sockets
           /\ conns' = st2.conns
    /\ UNCHANGED <<log, now, sent, roomVars, appendVars, raceVars,
                   outbox, routed, hub, extVars>>

\* _route_message for a MSG read from sender_sock; order is the order of the
\* loop over the mentions (a set) or over self.clients.
HubRoute(sender_sock, body) ==
    /\ hub = "running"
    /\ Len(routed) < MaxRoutes
    /\ sender_sock \in DOMAIN sockets /\ conns[sender_sock] \in {"open", "peer_gone"}
    /\ LET sender_id == sockets[sender_sock]
           mentions == Mentions(body)
           full_msg == [id |-> Len(routed) + 1, from |-> sender_id, type |-> MSG,
                        body |-> body, mentions |-> mentions,
                        timestamp |-> Timestamp(now)]
           ids == IF mentions # {}
                  THEN mentions \cap DOMAIN clients
                  ELSE {s \in DOMAIN clients : clients[s] # sender_sock}
           sent_msg == [kind |-> "sent", id |-> full_msg.id,
                        routed_to |-> mentions \cap DOMAIN clients,
                        broadcast |-> (mentions = {})]
       IN  \E order \in Orders(ids) :
             LET targets == [k \in 1 .. Len(order) |-> clients[order[k]]]
                 d == Deliver(targets, conns, outbox,
                              [kind |-> "msg", msg |-> full_msg])
                 confirmed == ~d.failed /\ ~SendFails(conns, sender_sock)
             IN  /\ log' = HubLog(log, full_msg)
                 /\ outbox' = IF confirmed
                               THEN [d.outbox EXCEPT ![sender_sock] = Append(@, sent_msg)]
                               ELSE d.outbox
                 /\ hub' = IF confirmed THEN "running" ELSE "blocked"
                 /\ routed' = Append(routed, [msg |-> full_msg, sender |-> sender_sock])
    /\ UNCHANGED <<now, sent, roomVars, appendVars, raceVars, clients, sockets, conns, extVars>>

NextHub ==
    \/ \E sock \in Conns : HubAccept(sock)
    \/ \E sock \in Conns : PeerClose(sock)
    \/ \E sock \in Conns : HubEOF(sock)
    \/ \E reg \in Registers : HubRegister(reg[1], reg[2])
    \/ \E sock \in Conns, body \in HubBodies : HubRoute(sock, body)

SpecHub == Init /\ [][NextHub]_vars

(***************************************************************************)
(* C1.  For any sequence of N Room.send calls of a single writer, reading  *)
(* the room with all=true (since_id 0, no limit, no filter) returns        *)
(* exactly those N messages in send order, with strictly increasing ids:   *)
(* none is missing, none is added, none is split.  Stated here in its      *)
(* weakest form: as many messages as sends, each from the writer, in       *)
(* increasing id order.                                                    *)
(***************************************************************************)
C1_ReadAllReturnsTheSends ==
    LET msgs == ReadMessages(log, 0, 0, None, None)
    IN  /\ Len(msgs) = Len(sent)
        /\ \A k \in 1 .. Len(msgs) : msgs[k].session_id = sent[k].session_id
        /\ \A k \in 1 .. Len(msgs) - 1 : msgs[k].id < msgs[k + 1].id

(***************************************************************************)
(* C3.  The stored cursor of every reader never decreases, whatever step   *)
(* is taken (send, read, pending, check, a listen iteration), a room-wide  *)
(* clear excepted.                                                         *)
(***************************************************************************)
C3_CursorNeverDecreases ==
    [][ret'.op # "clear" =>
           \A r \in Sessions : GetReadPointer(ptr', r) >= GetReadPointer(ptr, r)]_vars

(***************************************************************************)
(* C5.  Every Room.read, whatever all, limit, type filter, for_me and      *)
(* quiet, leaves the reader's cursor at the room's total; a second read    *)
(* of the same reader with no call in between (so no send) returns an      *)
(* empty batch, None when quiet.                                           *)
(***************************************************************************)
C5_ReadLeavesCursorAtTotal ==
    ret.op = "read" =>
        /\ ptr[ret.session] = MessageCount(log)
        /\ (ret.again /\ ~ret.args.all) =>
              /\ ret.messages = << >>
              /\ ret.count = 0
              /\ (ret.args.quiet <=> ret.kind = "none")

\* A filtered, quiet second read of a room that holds messages returned None.
C5_Witness ==
    /\ ret.op = "read" /\ ret.again /\ ~ret.args.all /\ ret.args.quiet
    /\ ret.args.filtered /\ ret.kind = "none"
    /\ MessageCount(log) >= 2 /\ ptr[ret.session] = MessageCount(log)

(***************************************************************************)
(* C6.  A pending marker [start, end) is consumed exactly once: the        *)
(* pending call that finds it returns the lines start..end, deletes the    *)
(* marker and sets the cursor to end; a pending call that finds no marker  *)
(* (as the next one does when the daemon wrote none) returns pending=false *)
(* with no messages and leaves the cursor as it was.                       *)
(***************************************************************************)
C6_PendingConsumedOnce ==
    ret.op = "pending" =>
        /\ ret.kind = "pending" =>
              /\ ret.messages = Slice(log, ret.range[1], ret.range[2])
              /\ ret.count = ret.range[2] - ret.range[1]
              /\ pending[ret.session] = None
              /\ ptr[ret.session] = ret.range[2]
        /\ ret.kind # "pending" =>
              /\ ret.kind = "nopending" /\ ret.messages = << >> /\ ret.count = 0
              /\ GetReadPointer(ptr, ret.session) = ret.before
        /\ ret.again => ret.kind = "nopending"

\* A pending call has just consumed a marker covering two lines or more.
C6_Witness ==
    /\ ret.op = "pending" /\ ret.kind = "pending" /\ Len(ret.messages) >= 2
    /\ pending[ret.session] = None /\ ptr[ret.session] = ret.range[2]

(***************************************************************************)
(* C2.  When K processes concurrently append M messages each through       *)
(* append_message, in every state of every interleaving each message whose *)
(* write is done is in the log exactly once, whole (its content reads back *)
(* as appended), the log holds no other message, no two appends have been  *)
(* given the same id, and once all have returned the log holds K*M         *)
(* messages.                                                               *)
(***************************************************************************)
C2_ConcurrentAppendsAllPresentOnce ==
    LET msgs == ReadMessages(log, 0, 0, None, None)
        Written(p, k) == \/ k <= app[p].done
                         \/ k = app[p].done + 1 /\ app[p].pc \in {"count", "unlock"}
        Copies(p, k) == Cardinality({i \in 1 .. Len(msgs) :
                                        /\ msgs[i].session_id = p
                                        /\ msgs[i].content = AppendContent(p, k)})
        Ids == [i \in 1 .. Len(sent) |-> sent[i].id]
                 \o IF app[<<"a">>].pc = "unlock" THEN <<app[<<"a">>].message.id>> ELSE << >>
                 \o IF app[<<"b">>].pc = "unlock" THEN <<app[<<"b">>].message.id>> ELSE << >>
    IN  /\ \A p \in Sessions, k \in 1 .. MaxAppends :
              Copies(p, k) = IF Written(p, k) THEN 1 ELSE 0
        /\ Len(msgs) = Cardinality({pk \in Sessions \X (1 .. MaxAppends) :
                                        Written(pk[1], pk[2])})
        /\ \A i, j \in 1 .. Len(Ids) : i # j => Ids[i] # Ids[j]
        /\ (\A p \in Sessions : app[p].done = MaxAppends) =>
              Len(msgs) = Cardinality(Sessions) * MaxAppends

\* Both processes have appended all their messages, and their appends
\* alternated in the log.
C2_Witness ==
    /\ \A p \in Sessions : app[p].done = MaxAppends
    /\ Len(sent) = Cardinality(Sessions) * MaxAppends
    /\ \E i \in 1 .. Len(sent) - 2 :
          /\ sent[i].session_id = <<"a">>
          /\ sent[i + 1].session_id = <<"b">>
          /\ sent[i + 2].session_id = <<"a">>

(***************************************************************************)
(* C4.  At-least-once delivery to a reader, the room never being cleared,  *)
(* under every interleaving of the reader's unfiltered and unlimited read, *)
(* pending and check calls with a sender and the listen daemon: the        *)
(* reader's cursor is never past a line that no call has returned to the   *)
(* reader, and (the reader calling read again and again) every line of the *)
(* log is at last returned to it.                                          *)
(***************************************************************************)
C4_AtLeastOnceDelivery ==
    /\ [](\A r \in Readers : \A i \in 1 .. GetReadPointer(ptr, r) :
              i <= Len(log) => log[i] \in delivered)
    /\ \A i \in 1 .. MaxSends :
          (Len(log) >= i) ~> (Len(log) >= i /\ log[i] \in delivered)

\* A pending call has just moved the cursor back from the end of a log of
\* two lines, both of them returned before.
C4_Witness ==
    /\ Len(log) >= 2 /\ Range(log) \subseteq delivered
    /\ rd.pc = "idle" /\ ptr[<<"a">>] # NoFile /\ ptr[<<"a">>] < Len(log)

(***************************************************************************)
(* The registry of the hub is consistent: every session id of self.clients *)
(* is the id of the socket it maps to, and every socket with an id is the  *)
(* socket of that id.                                                      *)
(***************************************************************************)
RegistryConsistent ==
    /\ \A s \in DOMAIN clients :
          clients[s] \in DOMAIN sockets /\ sockets[clients[s]] = s
    /\ \A c \in DOMAIN sockets :
          sockets[c] # None => (sockets[c] \in DOMAIN clients /\ clients[sockets[c]] = c)

\* The step has written the routed message number id to connection c.
Got(c, id) ==
    \E k \in Len(outbox[c]) + 1 .. Len(outbox'[c]) :
        outbox'[c][k].kind = "msg" /\ outbox'[c][k].msg.id = id

(***************************************************************************)
(* C7.  Mention routing.  When a registered client whose connection is     *)
(* open sends a message with mentions (the registry being consistent), the *)
(* message is written to the connections of the mentioned registered ids   *)
(* and to no other connection, every mentioned client whose connection is  *)
(* open gets it, and the sender gets a SENT whose routed_to is exactly the *)
(* set of mentioned ids that are registered.                               *)
(***************************************************************************)
C7_MentionRouting ==
    [][(Len(routed') > Len(routed) /\ RegistryConsistent) =>
        LET e == routed'[Len(routed')]
            reg == e.msg.mentions \cap DOMAIN clients
        IN  (e.msg.mentions # {} /\ e.msg.from # None /\ conns[e.sender] = "open") =>
              /\ \A c \in Conns : Got(c, e.msg.id) => \E s \in reg : clients[s] = c
              /\ \A s \in reg : conns[clients[s]] = "open" => Got(clients[s], e.msg.id)
              /\ \E k \in 1 .. Len(outbox'[e.sender]) :
                    outbox'[e.sender][k] = [kind |-> "sent", id |-> e.msg.id,
                                            routed_to |-> reg, broadcast |-> FALSE]]_vars

(***************************************************************************)
(* C8.  Broadcast.  When a registered client whose connection is open      *)
(* sends a message with no mention (the registry being consistent), the    *)
(* message is written to registered connections only and never to the      *)
(* sender's socket, every other registered client whose connection is open *)
(* gets it, and the sender gets a SENT with broadcast = true.              *)
(***************************************************************************)
C8_Broadcast ==
    [][(Len(routed') > Len(routed) /\ RegistryConsistent) =>
        LET e == routed'[Len(routed')]
        IN  (e.msg.mentions = {} /\ e.msg.from # None /\ conns[e.sender] = "open") =>
              /\ \A c \in Conns : Got(c, e.msg.id) =>
                    c # e.sender /\ \E s \in DOMAIN clients : clients[s] = c
              /\ \A s \in DOMAIN clients :
                    (clients[s] # e.sender /\ conns[clients[s]] = "open")
                        => Got(clients[s], e.msg.id)
              /\ \E k \in 1 .. Len(outbox'[e.sender]) :
                    outbox'[e.sender][k] = [kind |-> "sent", id |-> e.msg.id,
                                            routed_to |-> {}, broadcast |-> TRUE]]_vars

C10_RegistryLivesWithConnection ==
    \A s \in HubIds :
        (s \in DOMAIN clients) <=>
            \E c \in DOMAIN sockets :
                conns[c] \in {"open", "peer_gone"} /\ sockets[c] = s

(***************************************************************************)
(* C11.  A send that fails while the hub routes a message (the registry    *)
(* being consistent and the sender's connection open) takes down that      *)
(* connection only: after the step the hub is running, every connection    *)
(* the message was for whose send failed is closed and out of the          *)
(* registry, every other connection it was for has the message, and the    *)
(* sender has its SENT.                                                    *)
(***************************************************************************)
C11_SendFailureIsolated ==
    [][(Len(routed') > Len(routed) /\ RegistryConsistent) =>
        LET e == routed'[Len(routed')]
            for == IF e.msg.mentions # {}
                   THEN {clients[s] : s \in e.msg.mentions \cap DOMAIN clients}
                   ELSE {clients[s] : s \in DOMAIN clients} \ {e.sender}
        IN  (conns[e.sender] = "open" /\ \E c \in for : SendFails(conns, c)) =>
              /\ hub' = "running"
              /\ \A c \in for :
                    IF SendFails(conns, c)
                    THEN conns'[c] = "closed" /\ c \notin DOMAIN sockets'
                    ELSE Got(c, e.msg.id) /\ conns'[c] = "open"
              /\ \E k \in 1 .. Len(outbox'[e.sender]) :
                    /\ outbox'[e.sender][k].kind = "sent"
                    /\ outbox'[e.sender][k].id = e.msg.id]_vars

(***************************************************************************)
(* C12.  The log-line encoding round-trips: the lines Message.to_log_line  *)
(* gives for a sent message (as they stand in the file), parsed with       *)
(* FileStorage._parse_line, give a message with the same sender, type,     *)
(* content, recipient and timestamp.                                       *)
(***************************************************************************)
C12_LogLineRoundTrip ==
    \A k \in 1 .. Len(sent) :
        LET m == sent[k]
            lines == FileLines(ToLogLine(m) \o <<NL>>)
            p == ParseLine(lines[1], 1, lines, 0)
        IN  /\ p.ok
            /\ p.session_id = m.session_id
            /\ p.msg_type = m.msg_type
            /\ p.content = m.content
            /\ p.recipient = m.recipient
            /\ p.timestamp = m.timestamp

\* The lines in the log of the messages among msgs that are addressed to the
\* reader by the recipient rule (no recipient, "*", the reader, or a comma
\* list holding the reader); every message when for_me is not set.
RECURSIVE LinesFor(_, _, _)
LinesFor(msgs, reader, for_me) ==
    IF Len(msgs) = 0 THEN << >>
    ELSE (IF for_me => RecipientMatches(msgs[1].recipient, reader)
          THEN FileLines(ToLogLine(msgs[1]) \o <<NL>>)
          ELSE << >>) \o LinesFor(Tail(msgs), reader, for_me)

(***************************************************************************)
(* C13.  Room.read with for_me=true by a reader that has read nothing      *)
(* returns the lines of exactly the sent messages whose recipient is       *)
(* absent, "*", the reader, or a comma list holding the reader; the lines  *)
(* of a message addressed to others only, single-line or multi-line, are   *)
(* not returned.                                                           *)
(***************************************************************************)
C13_ForMeReturnsAddressed ==
    \A r \in Readers :
        RoomRead(ptr, log, r, FALSE, FALSE, 0, None, TRUE).result.messages
            = LinesFor(sent, r, TRUE)

\* The lines in the log of the messages among msgs whose type is msg_type.
RECURSIVE LinesOfType(_, _)
LinesOfType(msgs, msg_type) ==
    IF Len(msgs) = 0 THEN << >>
    ELSE (IF msgs[1].msg_type = msg_type
          THEN FileLines(ToLogLine(msgs[1]) \o <<NL>>)
          ELSE << >>) \o LinesOfType(Tail(msgs), msg_type)

(***************************************************************************)
(* C14.  Room.read with the type filter TASK by a reader that has read     *)
(* nothing returns the lines of all and only the sent messages of type     *)
(* TASK, each of them complete, whatever the contents: no line of a        *)
(* message of another type is returned.                                    *)
(***************************************************************************)
C14_TypeFilterReturnsTheType ==
    \A r \in Readers :
        RoomRead(ptr, log, r, FALSE, FALSE, 0, TASK, FALSE).result.messages
            = LinesOfType(sent, TASK)

\* The sent messages the cursor of the reader has not passed: those whose
\* last line (the id append_message gave) is after the cursor.
RECURSIVE UnreadOf(_, _)
UnreadOf(msgs, cursor) ==
    IF Len(msgs) = 0 THEN << >>
    ELSE (IF msgs[1].id > cursor THEN <<msgs[1]>> ELSE << >>)
             \o UnreadOf(Tail(msgs), cursor)

(***************************************************************************)
(* C15.  Room.read with all=true and limit=N on a room that holds more     *)
(* than N messages returns the N most recent messages of the room.         *)
(***************************************************************************)
C15_ReadAllLimitKeepsMostRecent ==
    \A r \in Readers : \A n \in 1 .. Len(sent) - 1 :
        RoomRead(ptr, log, r, TRUE, FALSE, n, None, FALSE).result.messages
            = LinesFor(Drop(sent, Len(sent) - n), r, FALSE)

(***************************************************************************)
(* C16.  An incremental Room.read (all=false) with limit=N returns the     *)
(* oldest min(N, unread) messages of the reader's unread batch, whole and  *)
(* in log order.                                                           *)
(***************************************************************************)
C16_IncrementalLimitKeepsOldest ==
    \A r \in Readers : \A n \in 1 .. MaxSends :
        RoomRead(ptr, log, r, FALSE, FALSE, n, None, FALSE).result.messages
            = LinesFor(Take(UnreadOf(sent, GetReadPointer(ptr, r)), n), r, FALSE)

\* The sent messages whose last line is in the lines lo+1 .. hi of the log.
RECURSIVE SentIn(_, _, _)
SentIn(msgs, lo, hi) ==
    IF Len(msgs) = 0 THEN << >>
    ELSE (IF msgs[1].id > lo /\ msgs[1].id <= hi THEN <<msgs[1]>> ELSE << >>)
             \o SentIn(Tail(msgs), lo, hi)

(***************************************************************************)
(* C17.  Room.check(reader, for_me) returns the pending slice and the read *)
(* batch with total = pending_count + new_count; with for_me set, both     *)
(* parts hold the lines of exactly the messages addressed to the reader    *)
(* (no recipient, "*", the reader, a list holding it): a message addressed *)
(* only to another reader is in neither part.                              *)
(***************************************************************************)
C17_CheckFiltersBothParts ==
    ret.op = "check" =>
        LET r == ret.session
            start == IF ret.kind = "pending" THEN ret.range[1] ELSE ret.before
            end == IF ret.kind = "pending" THEN ret.range[2] ELSE ret.before
        IN  /\ ret.total = Len(ret.pmessages) + ret.count
            /\ ret.count = Len(ret.messages)
            /\ ret.pmessages = LinesFor(SentIn(sent, start, end), r, ret.args.filtered)
            /\ ret.messages = LinesFor(UnreadOf(sent, end), r, ret.args.filtered)

(***************************************************************************)
(* SQLiteStorage (storage/sqlite.py): one database file shared by every    *)
(* room; a storage object works on the room named after its base_dir.      *)
(* Two rooms X and Y use the database through Room (rooms/base.py).        *)
(***************************************************************************)
RoomX == <<"X">>

RoomY == <<"Y">>

SqlRooms == {RoomX, RoomY}

\* The calls of the model: session a works in room X, session b in room Y.
SqlCalls == {<<RoomX, <<"a">> >>, <<RoomY, <<"b">> >>}

\* SELECT ... FROM messages WHERE room = ? ORDER BY id
RoomRows(rows, room) == SelectSeq(rows, LAMBDA m : m.room = room)

\* append_message: INSERT INTO messages; the id is the next AUTOINCREMENT id.
SqlAppendMessage(db, room, message) ==
    [db EXCEPT !.seq = db.seq + 1,
               !.messages = Append(db.messages,
                   [id |-> db.seq + 1, room |-> room,
                    session_id |-> message.session_id,
                    msg_type |-> message.msg_type, content |-> message.content,
                    timestamp |-> message.timestamp,
                    recipient |-> message.recipient])]

\* get_read_pointer: the row of (session_id, room), 0 without one.
SqlGetReadPointer(db, session_id, room) ==
    IF <<session_id, room>> \in DOMAIN db.read_pointers
    THEN db.read_pointers[<<session_id, room>>]
    ELSE 0

\* set_read_pointer: INSERT OR REPLACE INTO read_pointers
SqlSetReadPointer(db, session_id, room, message_id) ==
    [db EXCEPT !.read_pointers = DictSet(db.read_pointers, <<session_id, room>>,
                                         message_id)]

\* get_message_count: SELECT COUNT(*) FROM messages WHERE room = ?
SqlGetMessageCount(db, room) == Len(RoomRows(db.messages, room))

\* get_sessions: SELECT session_id FROM read_pointers WHERE room = ?
SqlGetSessions(db, room) == {k[1] : k \in {q \in DOMAIN db.read_pointers : q[2] = room}}

\* get_raw_lines: to_log_line of every message of the room, and after a
\* multi-line message its content lines and the end marker once more.
RECURSIVE SqlRawLines(_)
SqlRawLines(rows) ==
    IF rows = << >> THEN << >>
    ELSE LET msg == rows[1]
         IN  <<ToLogLine(msg)>>
             \o (IF HasChar(msg.content, NL)
                 THEN Split(msg.content, NL) \o <<EndMarker>>
                 ELSE << >>)
             \o SqlRawLines(Tail(rows))

SqlGetRawLines(db, room) == SqlRawLines(RoomRows(db.messages, room))

\* get_pending_range: the row of session_id (the table has no room column).
SqlGetPendingRange(db, session_id) ==
    IF session_id \in DOMAIN db.pending THEN db.pending[session_id] ELSE None

\* clear_pending: DELETE FROM pending WHERE session_id = ?
SqlClearPending(db, session_id) ==
    [db EXCEPT !.pending = DictPop(db.pending, session_id)]

\* set_pending_range: INSERT OR REPLACE INTO pending
SqlSetPendingRange(db, session_id, start, end) ==
    [db EXCEPT !.pending = DictSet(db.pending, session_id, <<start, end>>)]

\* DELETE FROM messages with no WHERE clause.
DeleteAllRows(rows, room) == << >>

\* DELETE FROM messages WHERE room = ?
DeleteRoomRows(rows, room) == SelectSeq(rows, LAMBDA m : m.room # room)

\* DELETE FROM read_pointers WHERE room = ?
DeleteRoomPointers(pointers, room) ==
    [k \in {q \in DOMAIN pointers : q[2] # room} |-> pointers[k]]

\* clear: the three DELETE statements; the one on pending has no WHERE clause.
SqlClearDb(db, room) ==
    [db EXCEPT !.messages = DeleteRoomRows(db.messages, room),
               !.read_pointers = DeleteRoomPointers(db.read_pointers, room),
               !.pending = << >>]

SqlOp(op, room, session_id, has_pending, set_by) ==
    [op |-> op, room |-> room, session |-> session_id, pending |-> has_pending,
     set_by |-> set_by]

\* Room.send on a room of the database.
SqlSend(room, session_id) ==
    /\ sql.seq < MaxRows
    /\ sql' = SqlAppendMessage(sql, room,
                  Message(0, session_id, MSG, <<"x">>, Timestamp(now), None))
    /\ sqlop' = SqlOp("send", room, session_id, FALSE, sqlop.set_by)
    /\ UNCHANGED <<log, now, sent, roomVars, appendVars, raceVars, hubVars, sigVars,
                   clientVars, dataVars>>

\* Room.read with its default arguments: the lines after the cursor, and the
\* cursor set to the number of lines.
SqlRead(room, session_id) ==
    LET lines == SqlGetRawLines(sql, room)
    IN  /\ sql' = SqlSetReadPointer(sql, session_id, room, Len(lines))
        /\ sqlop' = SqlOp("read", room, session_id, FALSE, sqlop.set_by)
        /\ UNCHANGED <<log, now, sent, roomVars, appendVars, raceVars, hubVars, sigVars,
                   clientVars, dataVars>>

\* storage.set_pending_range for a session of the room, with the range the
\* listen loop computes (commands/listen.py): cursor to message count.
SqlSetPending(room, session_id) ==
    LET last_read == SqlGetReadPointer(sql, session_id, room)
        total_lines == SqlGetMessageCount(sql, room)
    IN  /\ total_lines > last_read
        /\ sql' = SqlSetPendingRange(sql, session_id, last_read, total_lines)
        /\ sqlop' = SqlOp("set_pending", room, session_id, FALSE,
                          DictSet(sqlop.set_by, session_id, room))
        /\ UNCHANGED <<log, now, sent, roomVars, appendVars, raceVars, hubVars, sigVars,
                   clientVars, dataVars>>

\* Room.pending on a room of the database.
SqlPending(room, session_id) ==
    LET pending_range == SqlGetPendingRange(sql, session_id)
    IN  /\ IF pending_range = None
           THEN /\ sql' = sql
                /\ sqlop' = SqlOp("pending", room, session_id, FALSE, sqlop.set_by)
           ELSE /\ sql' = SqlSetReadPointer(SqlClearPending(sql, session_id),
                                            session_id, room, pending_range[2])
                /\ sqlop' = SqlOp("pending", room, session_id, TRUE,
                                  DictPop(sqlop.set_by, session_id))
        /\ UNCHANGED <<log, now, sent, roomVars, appendVars, raceVars, hubVars, sigVars,
                   clientVars, dataVars>>

\* Room.clear on a room of the database.
SqlClear(room) ==
    /\ sql' = SqlClearDb(sql, room)
    /\ sqlop' = SqlOp("clear", room, None, FALSE, << >>)
    /\ UNCHANGED <<log, now, sent, roomVars, appendVars, raceVars, hubVars, sigVars,
                   clientVars, dataVars>>

NextSql ==
    \/ \E c \in SqlCalls : \E s \in Sessions : SqlSend(c[1], s)
    \/ \E c \in SqlCalls : SqlRead(c[1], c[2])
    \/ \E c \in SqlCalls : SqlSetPending(c[1], c[2])
    \/ \E c \in SqlCalls : SqlPending(c[1], c[2])
    \/ \E room \in SqlRooms : SqlClear(room)

SpecSql == Init /\ [][NextSql]_vars

\* C18: clear on room X leaves X with no message, every cursor of X reading 0
\* and no reader listed, and leaves every message and every cursor of any
\* other room as it was.
C18_ClearIsolatesRooms ==
    [][sqlop'.op = "clear" =>
          LET X == sqlop'.room
          IN  /\ SqlGetMessageCount(sql', X) = 0
              /\ \A s \in Sessions : SqlGetReadPointer(sql', s, X) = 0
              /\ SqlGetSessions(sql', X) = {}
              /\ \A Y \in SqlRooms \ {X} :
                    /\ RoomRows(sql'.messages, Y) = RoomRows(sql.messages, Y)
                    /\ SqlGetSessions(sql', Y) = SqlGetSessions(sql, Y)
                    /\ \A s \in Sessions :
                          SqlGetReadPointer(sql', s, Y) = SqlGetReadPointer(sql, s, Y)]_vars

\* A room with a message and a read cursor has just been cleared while the
\* other room holds a message and a cursor above 0.
C18_Witness ==
    /\ sqlop.op = "clear"
    /\ sqlop.room = RoomX
    /\ sql.seq = MaxRows
    /\ SqlGetMessageCount(sql, RoomX) = 0
    /\ SqlGetMessageCount(sql, RoomY) = 1
    /\ SqlGetReadPointer(sql, <<"b">>, RoomY) = 1

\* C19: clear on room X deletes no pending marker that was set for a reader
\* of another room: every such marker is still stored, with its range, after
\* the clear.
C19_ClearKeepsOtherRoomsPending ==
    [][sqlop'.op = "clear" =>
          \A s \in DOMAIN sql.pending :
              sqlop.set_by[s] # sqlop'.room =>
                  SqlGetPendingRange(sql', s) = SqlGetPendingRange(sql, s)]_vars

\* C20: a send with empty content is answered with an error and changes
\* nothing: the log, every cursor and every pending marker are as before.
C20_EmptySendRejected ==
    [][(ret'.op = "send" /\ ret'.messages = << << >> >>) =>
          /\ ret'.kind = "error"
          /\ log' = log
          /\ ptr' = ptr
          /\ pending' = pending]_vars

(***************************************************************************)
(* The same Room calls on two rooms of the same name, one over FileStorage *)
(* (log, ptr, pending) and one over SQLiteStorage (sql).                   *)
(***************************************************************************)
\* Room.read over the database, as a function of the database.
SqlRoomRead(db, room, session_id, all_messages, quiet, limit, msg_type, for_me) ==
    LET last_line == IF all_messages THEN 0 ELSE SqlGetReadPointer(db, session_id, room)
        lines == SqlGetRawLines(db, room)
        new_lines == ReadBatch(lines, last_line, session_id, limit, msg_type, for_me)
    IN  [db |-> SqlSetReadPointer(db, session_id, room,
                                  ReadPointerAfter(lines, last_line, new_lines)),
         result |-> ReadResult(lines, new_lines, quiet)]

\* Room.pending over the database, as a function of the database.
SqlRoomPending(db, room, session_id) ==
    LET pending_range == SqlGetPendingRange(db, session_id)
    IN  IF pending_range = None
        THEN [db |-> db, kind |-> "nopending", messages |-> << >>]
        ELSE [db |-> SqlSetReadPointer(SqlClearPending(db, session_id), session_id,
                                       room, PendingPointer(pending_range)),
              kind |-> "pending",
              messages |-> PendingSlice(SqlGetRawLines(db, room), pending_range)]

\* Room.send on both rooms, with the same message.
BothSend(session_id, content, msg_type, recipient) ==
    /\ Len(sent) < MaxSends
    /\ sql.seq < MaxRows
    /\ LET message == Message(0, session_id, msg_type, content, Timestamp(now), recipient)
           after == WriteLog(log, message)
       IN  /\ log' = after
           /\ sent' = Append(sent, [message EXCEPT !.id = AssignedId(after)])
           /\ sql' = SqlAppendMessage(sql, RoomX, message)
    /\ ret' = Ret("send", session_id, "sent", <<content>>, << >>, 0, 0, None, NoArgs)
    /\ sqlop' = SqlOp("send", RoomX, session_id, FALSE, sqlop.set_by)
    /\ UNCHANGED <<ptr, pending, now, appendVars, raceVars, hubVars, sigVars,
                   clientVars, dataVars>>

\* Room.read on both rooms, with the same arguments.
BothRead(session_id, all_messages, quiet, limit, msg_type, for_me) ==
    LET r == RoomRead(ptr, log, session_id, all_messages, quiet, limit, msg_type, for_me)
        q == SqlRoomRead(sql, RoomX, session_id, all_messages, quiet, limit, msg_type,
                         for_me)
    IN  /\ ptr' = r.ptr
        /\ ret' = Ret("read", session_id, r.result.kind, r.result.messages, << >>,
                      r.result.new_count, r.result.total, None,
                      [all |-> all_messages, quiet |-> quiet,
                       filtered |-> (limit # 0 \/ msg_type # None \/ for_me)])
        /\ sql' = q.db
        /\ sqlop' = SqlOp("read", RoomX, session_id, FALSE, sqlop.set_by)
        /\ UNCHANGED <<log, pending, now, sent, appendVars, raceVars, hubVars, sigVars,
                   clientVars, dataVars>>

\* Room.pending on both rooms.
BothPending(session_id) ==
    LET p == RoomPending(ptr, pending, log, session_id)
        q == SqlRoomPending(sql, RoomX, session_id)
    IN  /\ ptr' = p.ptr
        /\ pending' = p.pending
        /\ ret' = Ret("pending", session_id, p.kind, p.messages, << >>,
                      Len(p.messages), 0, p.range, NoArgs)
        /\ sql' = q.db
        /\ sqlop' = SqlOp("pending", RoomX, session_id, q.kind = "pending",
                          DictPop(sqlop.set_by, session_id))
        /\ UNCHANGED <<log, now, sent, appendVars, raceVars, hubVars, sigVars,
                   clientVars, dataVars>>

\* Room.check on both rooms.
BothCheck(session_id, for_me) ==
    LET p == RoomPending(ptr, pending, log, session_id)
        r == RoomRead(p.ptr, log, session_id, FALSE, FALSE, 0, None, for_me)
        pending_msgs == IF for_me /\ Len(p.messages) > 0
                        THEN CheckFilter(p.messages, session_id)
                        ELSE p.messages
        q == SqlRoomPending(sql, RoomX, session_id)
        u == SqlRoomRead(q.db, RoomX, session_id, FALSE, FALSE, 0, None, for_me)
    IN  /\ ptr' = r.ptr
        /\ pending' = p.pending
        /\ ret' = Ret("check", session_id, p.kind, r.result.messages, pending_msgs,
                      r.result.new_count, Len(pending_msgs) + r.result.new_count,
                      p.range,
                      [all |-> FALSE, quiet |-> FALSE, filtered |-> for_me])
        /\ sql' = u.db
        /\ sqlop' = SqlOp("check", RoomX, session_id, q.kind = "pending",
                          DictPop(sqlop.set_by, session_id))
        /\ UNCHANGED <<log, now, sent, appendVars, raceVars, hubVars, sigVars,
                   clientVars, dataVars>>

\* Room.clear on both rooms.
BothClear ==
    /\ log' = << >>
    /\ ptr' = [r \in Sessions |-> NoFile]
    /\ pending' = [r \in Sessions |-> None]
    /\ sent' = << >>
    /\ ret' = Ret("clear", None, "cleared", << >>, << >>, 0, 0, None, NoArgs)
    /\ sql' = SqlClearDb(sql, RoomX)
    /\ sqlop' = SqlOp("clear", RoomX, None, FALSE, << >>)
    /\ UNCHANGED <<now, appendVars, raceVars, hubVars, sigVars,
                   clientVars, dataVars>>

NextBoth ==
    \/ \E m \in RoomSends : BothSend(m[1], m[2], m[3], m[4])
    \/ \E r \in Readers, all_messages \in BOOLEAN, quiet \in BOOLEAN, f \in ReadFilters :
            BothRead(r, all_messages, quiet, f[1], f[2], f[3])
    \/ \E r \in Readers : BothPending(r)
    \/ \E r \in Readers, for_me \in BOOLEAN : BothCheck(r, for_me)
    \/ BothClear

SpecBoth == Init /\ [][NextBoth]_vars

\* C21: after the same calls the two backends give the same raw lines, the
\* same cursor for every reader and the same result of every Room.read.
C21_BackendsInterchangeable ==
    /\ SqlGetRawLines(sql, RoomX) = log
    /\ \A r \in Readers :
          /\ SqlGetReadPointer(sql, r, RoomX) = GetReadPointer(ptr, r)
          /\ \A all_messages \in BOOLEAN, f \in ReadFilters :
                SqlRoomRead(sql, RoomX, r, all_messages, FALSE, f[1], f[2], f[3]).result
                    = RoomRead(ptr, log, r, all_messages, FALSE, f[1], f[2], f[3]).result

\* The sessions the hub delivers a routed message to when they are
\* connected: the mentioned ones, or with no mention everyone but the sender.
HubAddressees(msg) ==
    IF msg.mentions # {} THEN msg.mentions \cap HubIds
    ELSE HubIds \ {msg.from}

\* C22: every session the hub delivers a routed message to, or would if it
\* were connected, finds the lines of the message in the room log when it
\* reads the whole log with for_me.
C22_DurableCatchUp ==
    \A k \in 1 .. Len(routed) :
        \A s \in HubAddressees(routed[k].msg) :
            LET lines == FileLines(HubLogText(routed[k].msg))
                got == ReadBatch(log, 0, s, 0, None, TRUE)
            IN  \A i \in 1 .. Len(lines) : \E j \in 1 .. Len(got) : got[j] = lines[i]

\* C23: a message read from a connection that has not registered is routed
\* to nobody: no connection receives it, and the connection it came from
\* stays as it was.
C23_UnregisteredNotRouted ==
    [][(Len(routed') > Len(routed)
           /\ sockets[routed'[Len(routed')].sender] = None) =>
          LET e == routed'[Len(routed')]
          IN  /\ \A c \in Conns : \A k \in 1 .. Len(outbox'[c]) :
                    ~(outbox'[c][k].kind = "msg" /\ outbox'[c][k].msg.id = e.msg.id)
              /\ conns'[e.sender] = conns[e.sender]
              /\ e.sender \in DOMAIN sockets']_vars

(***************************************************************************)
(* The hub and a termination signal (scripts/hub.py, main and stop).       *)
(* Routing is two steps here: up to the `with self.lock` of line 242, and  *)
(* the block under the lock.  The signal handler runs in the hub's only    *)
(* thread, on top of whatever that thread was doing.                       *)
(***************************************************************************)
\* The REGISTER messages and the bodies of this specification.
SigRegisters == { <<1, <<"a">>>>, <<2, <<"b">>>>, <<3, <<"c">>>> }

SigBodies == { <<"x">>, <<"@", "b", SP, "x">> }

\* _route_message, lines 222-242: the message is built and logged, and the
\* lock is taken.
RouteLock(sender_sock, body) ==
    /\ hub = "running"
    /\ Len(routed) < MaxRoutes
    /\ sender_sock \in DOMAIN sockets /\ conns[sender_sock] \in {"open", "peer_gone"}
    /\ LET full_msg == [id |-> Len(routed) + 1, from |-> sockets[sender_sock],
                        type |-> MSG, body |-> body, mentions |-> Mentions(body),
                        timestamp |-> Timestamp(now)]
       IN  /\ log' = HubLog(log, full_msg)
           /\ routed' = Append(routed, [msg |-> full_msg, sender |-> sender_sock])
    /\ hub' = "routing"
    /\ UNCHANGED <<now, sent, roomVars, appendVars, raceVars, clients, sockets, conns,
                   outbox, extVars>>

\* _route_message, lines 243-266: the sends under the lock, and its release.
RouteSends ==
    /\ hub = "routing"
    /\ LET full_msg == routed[Len(routed)].msg
           sender_sock == routed[Len(routed)].sender
           mentions == full_msg.mentions
           ids == IF mentions # {}
                  THEN mentions \cap DOMAIN clients
                  ELSE {s \in DOMAIN clients : clients[s] # sender_sock}
           sent_msg == [kind |-> "sent", id |-> full_msg.id,
                        routed_to |-> mentions \cap DOMAIN clients,
                        broadcast |-> (mentions = {})]
       IN  \E order \in Orders(ids) :
             LET targets == [k \in 1 .. Len(order) |-> clients[order[k]]]
                 d == Deliver(targets, conns, outbox,
                              [kind |-> "msg", msg |-> full_msg])
                 confirmed == ~d.failed /\ ~SendFails(conns, sender_sock)
             IN  /\ outbox' = IF confirmed
                               THEN [d.outbox EXCEPT ![sender_sock] = Append(@, sent_msg)]
                               ELSE d.outbox
                 /\ hub' = IF confirmed THEN "running" ELSE "blocked"
    /\ UNCHANGED <<log, now, sent, roomVars, appendVars, raceVars, clients, sockets,
                   conns, routed, extVars>>

\* stop, lines 90-107, once it has the lock: every client socket and the
\* listening socket are closed, the registry is emptied, the files removed.
StopCloses(cn) == [c \in Conns |-> IF cn[c] \in {"open", "peer_gone"} THEN "closed"
                                   ELSE cn[c]]

\* SIGINT or SIGTERM: signal_handler (main, lines 320-322) calls hub.stop()
\* and sys.exit(0).  stop waits for self.lock; when the interrupted code of
\* the same thread holds it, the handler waits for good.
Signal ==
    /\ ~art.signalled
    /\ hub # "exited"
    /\ IF hub \in {"routing", "blocked"}
       THEN /\ hub' = "stopping"
            /\ art' = [art EXCEPT !.signalled = TRUE]
            /\ UNCHANGED <<clients, sockets, conns>>
       ELSE /\ hub' = "exited"
            /\ conns' = StopCloses(conns)
            /\ clients' = << >>
            /\ sockets' = << >>
            /\ art' = [server |-> "closed", socket_file |-> FALSE, pid_file |-> FALSE,
                       signalled |-> TRUE]
    /\ UNCHANGED <<log, now, sent, roomVars, appendVars, raceVars, outbox, routed,
                   sqlVars, clientVars, dataVars>>

NextSignal ==
    \/ \E sock \in Conns : HubAccept(sock)
    \/ \E reg \in SigRegisters : HubRegister(reg[1], reg[2])
    \/ \E sock \in Conns, body \in SigBodies : RouteLock(sock, body)
    \/ RouteSends
    \/ Signal

SpecSignal == Init /\ [][NextSignal]_vars

\* The hub's thread goes on with the block under the lock.
SpecSignalFair == SpecSignal /\ WF_vars(RouteSends)

HubExited ==
    /\ hub = "exited"
    /\ art.server = "closed"
    /\ ~art.socket_file
    /\ ~art.pid_file
    /\ \A c \in Conns : conns[c] \notin {"open", "peer_gone"}

\* C24: once SIGINT or SIGTERM has reached the hub, at any point of its
\* execution, the hub eventually has left the loop with the listening socket
\* and every client connection closed and the socket and pid files deleted.
C24_SignalStopsHub == art.signalled ~> HubExited

(***************************************************************************)
(* JSON lines.  A line is a sequence of tokens: the punctuation of JSON, a *)
(* string literal, or a bare word (which JSON does not have).  A message   *)
(* is a dict of strings, kept as the sequence of its (key, value) pairs in *)
(* insertion order.                                                        *)
(***************************************************************************)
P(c) == <<"punct", c>>

S(text) == <<"str", text>>

RECURSIVE DumpPairs(_)
DumpPairs(msg) ==
    IF Len(msg) = 0 THEN << >>
    ELSE <<S(msg[1][1]), P(":"), S(msg[1][2])>>
         \o (IF Len(msg) > 1 THEN <<P(",")>> ELSE << >>)
         \o DumpPairs(Tail(msg))

\* json.dumps of a dict of strings
JsonDumps(msg) == <<P("{")>> \o DumpPairs(msg) \o <<P("}")>>

\* The members of an object: key ":" value, separated by ",".
RECURSIVE LoadPairs(_)
LoadPairs(toks) ==
    IF Len(toks) < 3 \/ toks[1][1] # "str" \/ toks[2] # P(":") \/ toks[3][1] # "str"
    THEN [ok |-> FALSE, msg |-> << >>]
    ELSE IF Len(toks) = 3 THEN [ok |-> TRUE, msg |-> << <<toks[1][2], toks[3][2]>> >>]
    ELSE IF toks[4] # P(",") THEN [ok |-> FALSE, msg |-> << >>]
    ELSE LET rest == LoadPairs(SubSeq(toks, 5, Len(toks)))
         IN  [ok |-> rest.ok, msg |-> << <<toks[1][2], toks[3][2]>> >> \o rest.msg]

\* json.loads of a line: a dict ("object"), another JSON value ("value"),
\* or JSONDecodeError ("error").
JsonLoads(toks) ==
    IF Len(toks) = 1 /\ toks[1][1] = "str" THEN [kind |-> "value", msg |-> << >>]
    ELSE IF Len(toks) >= 2 /\ toks[1] = P("{") /\ toks[Len(toks)] = P("}")
    THEN IF Len(toks) = 2 THEN [kind |-> "object", msg |-> << >>]
         ELSE LET r == LoadPairs(SubSeq(toks, 2, Len(toks) - 1))
              IN  IF r.ok THEN [kind |-> "object", msg |-> r.msg]
                  ELSE [kind |-> "error", msg |-> << >>]
    ELSE [kind |-> "error", msg |-> << >>]

\* dict.get(key, default)
RECURSIVE Get(_, _, _)
Get(msg, key, default) ==
    IF Len(msg) = 0 THEN default
    ELSE IF msg[1][1] = key THEN msg[1][2]
    ELSE Get(Tail(msg), key, default)

(***************************************************************************)
(* The client (scripts/client.py): the receive thread, and the calls of    *)
(* the embedding process, one at a time.  The hub is the environment: it   *)
(* writes lines to the connection and closes it.                           *)
(***************************************************************************)
\* The lines the hub writes: a routed message, the confirmation of a send,
\* the reply to LIST, and a line cut short.
RoutedLine ==
    JsonDumps(<< <<"id", "m">>, <<"from", "b">>, <<"type", "MSG">>, <<"body", "x">> >>)

\* The SENT of the k-th message of the client: full_msg["id"] is a new uuid
\* for every message, here the number of the message.
SentFor(k) == JsonDumps(<< <<"type", "SENT">>, <<"id", ToString(k)>> >>)

SentLine == SentFor(1)

SentLines == {SentFor(k) : k \in 1 .. MaxClientSends}

ListLine == JsonDumps(<< <<"type", "CLIENT_LIST">>, <<"clients", "a">> >>)

NoiseLine == <<P("{"), S("type"), P(":")>>

\* The result of send when no SENT has arrived.
AssumeSent(body) == << <<"sent", "True">>, <<"body", body>> >>

\* _handle_message and _save_to_inbox, on the client object.
HandleMessage(c, msg) ==
    [c EXCEPT !.message_queue = Append(c.message_queue, msg),
              !.inbox = Append(c.inbox, msg)]

\* A receive loop that ends on a line that is not JSON.
NoiseEndsThread(c) == [c EXCEPT !.thread = "ended"]

\* _receive_loop, lines 237-238: JSONDecodeError is passed over.
NoiseIgnored(c) == c

\* _receive_loop, lines 231-238, over the complete lines of the buffer; an
\* exception other than JSONDecodeError ends the loop (lines 242-245).
RECURSIVE HandleLines(_, _)
HandleLines(c, lines) ==
    IF Len(lines) = 0 \/ c.thread # "running" THEN c
    ELSE LET r == JsonLoads(lines[1])
         IN  IF Len(lines[1]) = 0 THEN HandleLines(c, Tail(lines))
             ELSE IF r.kind = "error" THEN HandleLines(NoiseIgnored(c), Tail(lines))
             ELSE IF r.kind = "value" THEN [c EXCEPT !.thread = "ended"]
             ELSE HandleLines(HandleMessage(c, r.msg), Tail(lines))

Step(name) == [call EXCEPT !.last = name]

\* The hub writes a line to the connection.  It confirms the messages and
\* answers the LIST requests it has received, at most once each.
HubWrites(line) ==
    /\ wire.hub_end = "open"
    /\ wire.written < MaxWire
    /\ line \in SentLines => wire.sents < wire.msgs /\ line = SentFor(wire.sents + 1)
    /\ line = ListLine => wire.lists > 0
    /\ wire' = [wire EXCEPT !.to_client = Append(@, line),
                            !.written = @ + 1,
                            !.sents = IF line \in SentLines THEN @ + 1 ELSE @,
                            !.lists = IF line = ListLine THEN @ - 1 ELSE @]
    /\ call' = Step("hub_writes")
    /\ UNCHANGED <<log, now, sent, roomVars, appendVars, raceVars, hubVars, sqlVars,
                   sigVars, cli, dataVars>>

\* The hub closes its end of the connection (_disconnect_client).
HubCloses ==
    /\ wire.hub_end = "open"
    /\ wire' = [wire EXCEPT !.hub_end = "closed"]
    /\ call' = Step("hub_closes")
    /\ UNCHANGED <<log, now, sent, roomVars, appendVars, raceVars, hubVars, sqlVars,
                   sigVars, cli, dataVars>>

\* The hub stops: the connection is closed and the socket file removed.
HubStops ==
    /\ wire.listening
    /\ wire' = [wire EXCEPT !.listening = FALSE,
                            !.hub_end = IF @ = "open" THEN "closed" ELSE @]
    /\ call' = Step("hub_stops")
    /\ UNCHANGED <<log, now, sent, roomVars, appendVars, raceVars, hubVars, sqlVars,
                   sigVars, cli, dataVars>>

\* One iteration of _receive_loop that does not time out: the loop ends
\* when connected is false; recv returns the first n lines the hub wrote,
\* or nothing when the hub has closed its end and all has been read.
ClientRecv(n) ==
    /\ cli.thread = "running"
    /\ IF cli.stop \/ ~cli.connected
       THEN /\ n = 0
            /\ cli' = [cli EXCEPT !.thread = "ended"]
            /\ wire' = wire
       ELSE IF Len(wire.to_client) = 0
       THEN /\ n = 0
            /\ wire.hub_end = "closed"
            /\ cli' = [cli EXCEPT !.connected = FALSE, !.thread = "ended"]
            /\ wire' = wire
       ELSE /\ n \in 1 .. Len(wire.to_client)
            /\ cli' = HandleLines(cli, Take(wire.to_client, n))
            /\ wire' = [wire EXCEPT !.to_client = Drop(@, n)]
    /\ call' = Step("recv")
    /\ UNCHANGED <<log, now, sent, roomVars, appendVars, raceVars, hubVars, sqlVars,
                   sigVars, dataVars>>

\* NClaudeClient.connect, on the client object and the connection: a new
\* socket, REGISTER, a new receive thread; it fails without a socket file.
ConnectClient(c, w) ==
    IF ~w.listening
    THEN [cli |-> [c EXCEPT !.connected = FALSE], wire |-> w, ok |-> FALSE]
    ELSE [cli |-> [c EXCEPT !.connected = TRUE, !.thread = "running",
                            !.sock = "open", !.stop = FALSE],
          wire |-> [w EXCEPT !.to_client = << >>, !.hub_end = "open",
                             !.made = @ + 1, !.sents = w.msgs],
          ok |-> TRUE]

\* _send: sendall fails on a connection the hub has closed.
ClientWrite(c, w, kind) ==
    IF w.hub_end # "open"
    THEN [cli |-> [c EXCEPT !.connected = FALSE], wire |-> w]
    ELSE [cli |-> c,
          wire |-> [w EXCEPT !.msgs = IF kind = "MSG" THEN @ + 1 ELSE @,
                             !.lists = IF kind = "LIST" THEN @ + 1 ELSE @]]

\* NClaudeClient.connect called by the embedding process.
Connect ==
    /\ call.op = "idle"
    /\ ~cli.connected
    /\ wire.made < MaxConnects
    /\ LET r == ConnectClient(cli, wire)
       IN  /\ cli' = r.cli
           /\ wire' = r.wire
           /\ call' = [Step("connect") EXCEPT !.result = IF r.ok THEN RBool("True")
                                                         ELSE RBool("False")]
    /\ UNCHANGED <<log, now, sent, roomVars, appendVars, raceVars, hubVars, sqlVars,
                   sigVars, dataVars>>

\* NClaudeClient.send, lines 138-147: None when not connected, else the
\* message is written and the wait for the confirmation begins.
SendBegin(body) ==
    /\ call.op = "idle"
    /\ wire.msgs + wire.lists < MaxClientSends
    /\ IF ~cli.connected
       THEN /\ call' = [Step("send") EXCEPT !.result = RNone, !.body = body]
            /\ UNCHANGED <<cli, wire>>
       ELSE LET r == ClientWrite(cli, wire, "MSG")
            IN  /\ cli' = r.cli
                /\ wire' = r.wire
                /\ call' = [Step("send") EXCEPT !.op = "send", !.want = "SENT",
                                               !.polls = 0, !.body = body,
                                               !.result = RNone]
    /\ UNCHANGED <<log, now, sent, roomVars, appendVars, raceVars, hubVars, sqlVars,
                   sigVars, dataVars>>

\* The module-level send (lines 298-304): a client that is not connected is
\* connected first.
HelperSend(body) ==
    /\ call.op = "idle"
    /\ wire.msgs + wire.lists < MaxClientSends
    /\ wire.made < MaxConnects
    /\ LET k == IF cli.connected THEN [cli |-> cli, wire |-> wire, ok |-> TRUE]
                ELSE ConnectClient(cli, wire)
       IN  IF ~k.ok
           THEN /\ cli' = k.cli
                /\ wire' = k.wire
                /\ call' = [Step("helper_send") EXCEPT !.result = RNone, !.body = body]
           ELSE LET r == ClientWrite(k.cli, k.wire, "MSG")
                IN  /\ cli' = r.cli
                    /\ wire' = r.wire
                    /\ call' = [Step("helper_send") EXCEPT
                                    !.op = "send", !.want = "SENT", !.polls = 0,
                                    !.body = body, !.result = RNone]
    /\ UNCHANGED <<log, now, sent, roomVars, appendVars, raceVars, hubVars, sqlVars,
                   sigVars, dataVars>>

\* list_clients, lines 185-188.
ListBegin ==
    /\ call.op = "idle"
    /\ wire.msgs + wire.lists < MaxClientSends
    /\ IF ~cli.connected
       THEN /\ call' = [Step("list_clients") EXCEPT !.result = RList(<< >>)]
            /\ UNCHANGED <<cli, wire>>
       ELSE LET r == ClientWrite(cli, wire, "LIST")
            IN  /\ cli' = r.cli
                /\ wire' = r.wire
                /\ call' = [Step("list_clients") EXCEPT
                                !.op = "list_clients", !.want = "CLIENT_LIST",
                                !.polls = 0, !.body = "", !.result = RNone]
    /\ UNCHANGED <<log, now, sent, roomVars, appendVars, raceVars, hubVars, sqlVars,
                   sigVars, dataVars>>

\* The inner loop of the wait (lines 152-155 and 193-196): messages are taken
\* from the queue until one has the type waited for.
RECURSIVE Drain(_, _)
Drain(q, want) ==
    IF Len(q) = 0 THEN [found |-> FALSE, response |-> None, queue |-> << >>]
    ELSE IF Get(q[1], "type", None) = want
    THEN [found |-> TRUE, response |-> q[1], queue |-> Tail(q)]
    ELSE Drain(Tail(q), want)

\* A wait whose counter does not advance.
PollStuck(polls) == polls

\* for _ in range(10): the next iteration after time.sleep(0.1)
NextPoll(polls) == polls + 1

\* One iteration of the wait of send or list_clients, and the return after
\* the last one.
Poll ==
    /\ call.op \in {"send", "list_clients"}
    /\ LET d == Drain(cli.message_queue, call.want)
       IN  /\ cli' = [cli EXCEPT !.message_queue = d.queue]
           /\ IF d.found
              THEN call' = [Step("poll") EXCEPT
                               !.op = "idle",
                               !.result = IF call.op = "send" THEN RDict(d.response)
                                          ELSE RList(<< <<
                                                   <<"session_id",
                                                     Get(d.response, "clients", None)>>
                                                         >> >>)]
              ELSE IF NextPoll(call.polls) >= MaxPolls
              THEN call' = [Step("poll") EXCEPT
                               !.op = "idle",
                               !.result = IF call.op = "send" THEN RDict(AssumeSent(call.body))
                                          ELSE RList(<< >>)]
              ELSE call' = [Step("poll") EXCEPT !.polls = NextPoll(call.polls)]
    /\ UNCHANGED <<log, now, sent, roomVars, appendVars, raceVars, hubVars, sqlVars,
                   sigVars, wire, dataVars>>

\* receive(): the first message of the queue, None when it is empty.
Receive ==
    /\ call.op = "idle"
    /\ IF Len(cli.message_queue) = 0
       THEN /\ call' = [Step("receive") EXCEPT !.result = RNone]
            /\ cli' = cli
       ELSE /\ call' = [Step("receive") EXCEPT !.result = RDict(Head(cli.message_queue)),
                                              !.taken = Append(@, Head(cli.message_queue))]
            /\ cli' = [cli EXCEPT !.message_queue = Tail(@)]
    /\ UNCHANGED <<log, now, sent, roomVars, appendVars, raceVars, hubVars, sqlVars,
                   sigVars, wire, dataVars>>

\* get_pending(): every message of the queue.
GetPending ==
    /\ call.op = "idle"
    /\ call' = [Step("get_pending") EXCEPT !.result = RList(cli.message_queue),
                                          !.taken = @ \o cli.message_queue]
    /\ cli' = [cli EXCEPT !.message_queue = << >>]
    /\ UNCHANGED <<log, now, sent, roomVars, appendVars, raceVars, hubVars, sqlVars,
                   sigVars, wire, dataVars>>

ClientBodies == {"x"}

NextClient ==
    \/ \E line \in {RoutedLine, ListLine, NoiseLine} \cup SentLines : HubWrites(line)
    \/ HubCloses
    \/ HubStops
    \/ \E n \in 0 .. MaxWire : ClientRecv(n)
    \/ Connect
    \/ \E body \in ClientBodies : SendBegin(body)
    \/ \E body \in ClientBodies : HelperSend(body)
    \/ ListBegin
    \/ Poll
    \/ Receive
    \/ GetPending

SpecClient == Init /\ [][NextClient]_vars

\* The calling thread keeps running: time.sleep(0.1) returns and the wait of
\* send or list_clients goes to its next iteration or to its return.
SpecClientFair == SpecClient /\ WF_<<call.op, call.polls>>(Poll)

(***************************************************************************)
(* The hub reading a client socket (_handle_client_data, _process_message) *)
(* on the hub's state st = [clients, sockets, conns, outbox, log, routed,  *)
(* hub]: the data of one recv holds several lines.                         *)
(***************************************************************************)
REGISTER == <<"R", "E", "G", "I", "S", "T", "E", "R">>

LIST == <<"L", "I", "S", "T">>

RoutedTypes == {MSG, TASK, <<"R", "E", "P", "L", "Y">>, <<"S", "T", "A", "T", "U", "S">>,
                <<"E", "R", "R", "O", "R">>, <<"U", "R", "G", "E", "N", "T">>}

\* The lines clients write: REGISTER, a message, and a line cut short.
RegLine(session_id) ==
    JsonDumps(<< <<"type", REGISTER>>, <<"session_id", session_id>> >>)

MsgLine(body) == JsonDumps(<< <<"type", MSG>>, <<"body", body>> >>)

\* _send_to_socket on st: the item is written, or the socket disconnected.
\* Under the lock the disconnect waits for the lock.
SendToSocket(st, sock, item, locked) ==
    IF SendFails(st.conns, sock)
    THEN IF locked THEN [st EXCEPT !.hub = "blocked"]
         ELSE LET d == DisconnectClient([clients |-> st.clients, sockets |-> st.sockets,
                                         conns |-> st.conns], sock)
              IN  [st EXCEPT !.clients = d.clients, !.sockets = d.sockets,
                             !.conns = d.conns]
    ELSE IF item = None THEN st
    ELSE [st EXCEPT !.outbox[sock] = Append(@, item)]

\* The sends of _route_message to the targets, in their order.
RECURSIVE SendAll(_, _, _)
SendAll(st, targets, item) ==
    IF Len(targets) = 0 \/ st.hub # "running" THEN st
    ELSE SendAll(SendToSocket(st, targets[1], item, TRUE), Tail(targets), item)

\* _route_message on st; perm gives the order of the loops over the
\* mentions and over self.clients.
RouteMessage(st, sender_sock, msg, perm) ==
    LET body == Get(msg, "body", << >>)
        mentions == Mentions(body)
        full_msg == [id |-> Len(st.routed) + 1, from |-> st.sockets[sender_sock],
                     type |-> Get(msg, "type", MSG), body |-> body,
                     mentions |-> mentions, timestamp |-> Timestamp(now)]
        ids == IF mentions # {}
               THEN mentions \cap DOMAIN st.clients
               ELSE {s \in DOMAIN st.clients : st.clients[s] # sender_sock}
        order == SelectSeq(perm, LAMBDA s : s \in ids)
        targets == [k \in 1 .. Len(order) |-> st.clients[order[k]]]
        sent_msg == [kind |-> "sent", id |-> full_msg.id,
                     routed_to |-> mentions \cap DOMAIN st.clients,
                     broadcast |-> (mentions = {})]
        logged == [st EXCEPT !.log = HubLog(st.log, full_msg),
                             !.routed = Append(@, [msg |-> full_msg,
                                                   sender |-> sender_sock])]
        delivered_to == SendAll(logged, targets, [kind |-> "msg", msg |-> full_msg])
    IN  IF delivered_to.hub # "running" THEN delivered_to
        ELSE SendToSocket(delivered_to, sender_sock, sent_msg, TRUE)

\* _process_message on st.
ProcessMessage(st, sock, msg, perm) ==
    LET msg_type == Get(msg, "type", MSG)
    IN  IF msg_type = REGISTER
        THEN LET session_id == Get(msg, "session_id", None)
             IN  IF session_id = None THEN st
                 ELSE SendToSocket([st EXCEPT !.sockets = DictSet(@, sock, session_id),
                                              !.clients = DictSet(@, session_id, sock)],
                                   sock, None, FALSE)
        ELSE IF msg_type \in RoutedTypes THEN RouteMessage(st, sock, msg, perm)
        ELSE IF msg_type = LIST
        THEN SendToSocket(st, sock, [kind |-> "list", clients |-> DOMAIN st.clients],
                          FALSE)
        ELSE st

\* _handle_client_data, lines 169-171: any other exception disconnects the
\* client.
BadLineDisconnects(st, sock) ==
    LET d == DisconnectClient([clients |-> st.clients, sockets |-> st.sockets,
                               conns |-> st.conns], sock)
    IN  [st EXCEPT !.clients = d.clients, !.sockets = d.sockets, !.conns = d.conns]

\* _handle_client_data, lines 164-165: JSONDecodeError is reported and the
\* loop goes on.
BadLine(st, sock) == st

\* _handle_client_data, lines 157-171, over the lines of the data: an
\* exception other than JSONDecodeError disconnects the client.
RECURSIVE HandleClientData(_, _, _, _)
HandleClientData(st, sock, lines, perm) ==
    IF Len(lines) = 0 \/ st.hub # "running" THEN st
    ELSE IF Len(lines[1]) = 0 THEN HandleClientData(st, sock, Tail(lines), perm)
    ELSE LET r == JsonLoads(lines[1])
         IN  IF r.kind = "error"
             THEN HandleClientData(BadLine(st, sock), sock, Tail(lines), perm)
             ELSE IF r.kind = "value" THEN BadLineDisconnects(st, sock)
             ELSE HandleClientData(ProcessMessage(st, sock, r.msg, perm), sock,
                                   Tail(lines), perm)

HubState ==
    [clients |-> clients, sockets |-> sockets, conns |-> conns, outbox |-> outbox,
     log |-> log, routed |-> routed, hub |-> hub]

\* The data of this specification: one line, or two lines of which one is
\* not JSON.
HubDatas ==
    { <<RegLine(<<"a">>)>>, <<RegLine(<<"b">>)>>, <<MsgLine(<<"x">>)>>, <<NoiseLine>>,
      <<NoiseLine, RegLine(<<"a">>)>>, <<NoiseLine, MsgLine(<<"x">>)>>,
      <<MsgLine(<<"x">>), NoiseLine>> }

\* The lines of the data that are messages to route.
Routes(data) == Len(SelectSeq(data, LAMBDA l : l = MsgLine(<<"x">>)))

\* _handle_client_data for the data read from an open socket.
HubData(sock, data, perm) ==
    /\ hub = "running"
    /\ sock \in DOMAIN sockets /\ conns[sock] = "open"
    /\ Len(routed) + Routes(data) <= MaxRoutes
    /\ \E st \in {HandleClientData(HubState, sock, data, perm)} :
           /\ clients' = st.clients
           /\ sockets' = st.sockets
           /\ conns' = st.conns
           /\ outbox' = st.outbox
           /\ log' = st.log
           /\ routed' = st.routed
           /\ hub' = st.hub
    /\ rx' = [sock |-> sock, data |-> data]
    /\ UNCHANGED <<now, sent, roomVars, appendVars, raceVars, sqlVars, sigVars,
                   clientVars>>

(***************************************************************************)
(* Both ends of the line protocol: the hub reading client sockets, and the *)
(* receive loop of a client reading what its hub wrote.                    *)
(***************************************************************************)
\* The connections of this specification, and the orders of the ids that
\* register in it.
NoiseConns == {1, 2}

DataOrders == Orders({<<"a">>, <<"b">>})

NextNoise ==
    \/ \E sock \in NoiseConns : HubAccept(sock)
    \/ \E sock \in NoiseConns, data \in HubDatas, perm \in DataOrders :
            HubData(sock, data, perm)
    \/ Connect
    \/ \E line \in {RoutedLine, NoiseLine} : HubWrites(line)
    \/ \E n \in 0 .. MaxWire : ClientRecv(n)

SpecNoise == Init /\ [][NextNoise]_vars

\* The lines json.loads accepts.
Parsing(lines) == SelectSeq(lines, LAMBDA l : JsonLoads(l).kind # "error")

RoutedIn(q) ==
    SelectSeq(q, LAMBDA m : Get(m, "type", None) \notin {"SENT", "CLIENT_LIST", "REGISTERED"})

\* The messages of the lines json.loads accepts.
RECURSIVE MessagesOf(_)
MessagesOf(lines) ==
    IF Len(lines) = 0 THEN << >>
    ELSE (IF JsonLoads(lines[1]).kind = "object" THEN <<JsonLoads(lines[1]).msg>>
          ELSE << >>) \o MessagesOf(Tail(lines))

\* C26: the receive loop appends every message it reads to the inbox file
\* and to the queue, and a routed message leaves the queue only in a
\* receive() or get_pending() of the embedding process.
C26_QueuedUntilPolled ==
    [][/\ call'.last = "recv" =>
             LET read == Take(wire.to_client, Len(wire.to_client) - Len(wire'.to_client))
             IN  /\ cli'.message_queue = cli.message_queue \o MessagesOf(read)
                 /\ cli'.inbox = cli.inbox \o MessagesOf(read)
       /\ call'.last \notin {"receive", "get_pending"} =>
             Len(RoutedIn(cli'.message_queue)) >= Len(RoutedIn(cli.message_queue))]_vars

\* C27: a send on a connected client returns after at most MaxPolls
\* iterations of its wait, with the first SENT of the queue when there is
\* one and with the assume-sent result otherwise, never with None.
C27_SendReturnsBounded ==
    /\ [][(call.op = "send" /\ call'.op = "idle") =>
            /\ call.polls < MaxPolls
            /\ call'.result = IF Drain(cli.message_queue, "SENT").found
                              THEN RDict(Drain(cli.message_queue, "SENT").response)
                              ELSE RDict(AssumeSent(call.body))
            /\ call'.result # RNone]_vars
    /\ (call.op = "send") ~> (call.op = "idle")

\* A send that returned the assume-sent result after the whole wait.
C27_Witness ==
    /\ call.op = "idle"
    /\ call.last = "poll"
    /\ call.want = "SENT"
    /\ call.result = RDict(AssumeSent(call.body))

\* C28: a read of zero bytes and a failed write mark the client
\* disconnected, and a send on a client that has lost its connection returns
\* None without making a new connection, through NClaudeClient.send and
\* through the module-level send alike.
C28_NoSilentReconnect ==
    [][/\ (call'.last = "recv" /\ cli.connected /\ Len(wire.to_client) = 0)
              => ~cli'.connected
       /\ (call'.last \in {"send", "helper_send", "list_clients"}
              /\ cli.connected /\ wire.hub_end # "open")
              => ~cli'.connected
       /\ (call'.last \in {"send", "helper_send"} /\ ~cli.connected /\ wire.made > 0)
              => /\ call'.op = "idle"
                 /\ call'.result = RNone
                 /\ wire'.made = wire.made
                 /\ ~cli'.connected]_vars

\* The case folding of SQLite's LIKE, which is for ASCII letters only.
Lower(ch) ==
    CASE ch = "A" -> "a"
      [] ch = "D" -> "d"
      [] ch = "E" -> "e"
      [] ch = "G" -> "g"
      [] ch = "K" -> "k"
      [] ch = "M" -> "m"
      [] ch = "N" -> "n"
      [] ch = "S" -> "s"
      [] ch = "T" -> "t"
      [] OTHER -> ch

\* text LIKE pattern in SQLite: "%" stands for any characters, "_" for one,
\* and letters match without regard to case.
RECURSIVE Like(_, _)
Like(text, pattern) ==
    IF Len(pattern) = 0 THEN Len(text) = 0
    ELSE IF pattern[1] = "%"
    THEN Like(text, Tail(pattern)) \/ (Len(text) > 0 /\ Like(Tail(text), pattern))
    ELSE /\ Len(text) > 0
         /\ (pattern[1] = "_" \/ Lower(pattern[1]) = Lower(text[1]))
         /\ Like(Tail(text), Tail(pattern))

\* The recipient filter of the query of SQLiteStorage.read_messages
\* (lines 191-200): recipient IS NULL, recipient = '*', recipient = ?, or
\* (',' || recipient || ',') LIKE '%,' || ? || ',%'.
SqlRecipientMatches(msg_recipient, session_id) ==
    \/ msg_recipient = None
    \/ msg_recipient = <<"*">>
    \/ msg_recipient = session_id
    \/ Like(<<",">> \o msg_recipient \o <<",">>,
            <<"%", ",">> \o session_id \o <<",", "%">>)

\* SQLiteStorage.read_messages: WHERE room = ? AND id > ? with the filters,
\* ORDER BY id ASC (the rows are kept in the order of their AUTOINCREMENT
\* ids), LIMIT ?; limit 0 and the filters None mean "absent".
SqlReadMessages(db, room, since_id, limit, msg_type, recipient) ==
    LET rows == SelectSeq(RoomRows(db.messages, room),
                    LAMBDA m : /\ m.id > since_id
                               /\ (msg_type = None \/ m.msg_type = msg_type)
                               /\ (recipient = None
                                   \/ SqlRecipientMatches(m.recipient, recipient)))
    IN  IF limit # 0 THEN Take(rows, limit) ELSE rows

\* Sender, type and content of the messages of a list.
RECURSIVE Fields(_)
Fields(msgs) ==
    IF Len(msgs) = 0 THEN << >>
    ELSE <<<<msgs[1].session_id, msgs[1].msg_type, msgs[1].content>>>>
             \o Fields(Tail(msgs))

\* The messages of a list with an id after since_id and, when msg_type is
\* given, of that type.
Selected(msgs, since_id, msg_type) ==
    SelectSeq(msgs, LAMBDA m : /\ m.id > since_id
                               /\ (msg_type = None \/ m.msg_type = msg_type))

Ascending(msgs) == \A k \in 1 .. Len(msgs) - 1 : msgs[k].id < msgs[k + 1].id

\* C29: on both backends read_messages(room, since_id, msg_type=T) returns
\* the appended messages whose id (the one append_message assigned) is
\* greater than since_id and whose type is T, every type without T, by
\* ascending id, and nothing for a since_id at or after the last id.
C29_ReadMessagesSelects ==
    \A since_id \in 0 .. Len(log) + 1, T \in {None, MSG, TASK} :
        LET file == ReadMessages(log, since_id, 0, T, None)
            rows == SqlReadMessages(sql, RoomX, since_id, 0, T, None)
        IN  /\ Fields(file) = Fields(Selected(sent, since_id, T))
            /\ Ascending(file)
            /\ rows = Selected(RoomRows(sql.messages, RoomX), since_id, T)
            /\ Ascending(rows)
            /\ since_id = 0 => Fields(rows) = Fields(Selected(sent, 0, T))
            /\ since_id >= sql.seq => rows = << >>
            /\ (sent # << >> /\ since_id >= sent[Len(sent)].id) => file = << >>

\* The content to_log_line writes for a message: the recipient, when there
\* is one, comes first as "@recipient ".
Written(m) ==
    IF m.recipient # None THEN <<"@">> \o m.recipient \o <<SP>> \o m.content
    ELSE m.content

\* "@all " and "@* " at the start of a content
ReservedTokens == { <<"@", "a", "l", "l", SP>>, <<"@", "*", SP>> }

\* C30: a message whose written content starts with "@all " or "@* " is
\* parsed from its log lines as a message without recipient, and the
\* recipient filter of the storage and the for_me filter of Room.read show
\* it to every session.
C30_ReservedTokensMeanEveryone ==
    \A k \in 1 .. Len(sent) :
        LET m == sent[k]
            lines == FileLines(ToLogLine(m) \o <<NL>>)
            p == ParseLine(lines[1], 1, lines, 0)
        IN  (\E token \in ReservedTokens : StartsWith(Written(m), token)) =>
                /\ p.ok
                /\ p.recipient = None
                /\ \A r \in Sessions :
                      /\ RecipientMatches(p.recipient, r)
                      /\ \A j \in 1 .. Len(lines) : ForMeKeeps(lines[j], r)

\* C31: with both backends get_message_count gives the number of messages
\* appended to the room since its last clear.
C31_CountIsNumberOfMessages ==
    /\ MessageCount(log) = Len(sent)
    /\ SqlGetMessageCount(sql, RoomX) = Len(sent)

(***************************************************************************)
(* Two readers in one room: every session sends, reads, asks for pending   *)
(* lines, checks and has a listen daemon.                                  *)
(***************************************************************************)
\* The filters of the reads of the two readers: limit, msg_type, for_me.
CursorFilters == { <<0, None, FALSE>>, <<1, None, FALSE>> }

NextCursor ==
    \/ \E m \in RoomSends : Send(m[1], m[2], m[3], m[4])
    \/ \E r \in Sessions, all_messages \in BOOLEAN, f \in CursorFilters :
            Read(r, all_messages, FALSE, f[1], f[2], f[3])
    \/ \E r \in Sessions : Pending(r)
    \/ \E r \in Sessions : Check(r, FALSE)
    \/ \E r \in Sessions : Listen(r)
    \/ Clear

SpecCursor == Init /\ [][NextCursor]_vars

\* C32: the pointer file of a reader changes only in a read, pending or
\* check of that reader, or in a clear of the room; a send of any session
\* and the calls of the other reader leave it as it is.
C32_CursorsIndependent ==
    [][\A r \in Sessions :
          ptr'[r] # ptr[r] =>
              \/ ret'.op \in {"read", "pending", "check"} /\ ret'.session = r
              \/ ret'.op = "clear"]_vars

\* The sender b has read one line, has sent a second message itself and the
\* other reader has read both lines: b's cursor is still 1.
C32_Witness ==
    /\ Len(log) = 2
    /\ sent[2].session_id = <<"b">>
    /\ ptr[<<"b">>] = 1
    /\ ptr[<<"a">>] = 2

(***************************************************************************)
(* NClaudeClient.disconnect (scripts/client.py, lines 119-134).            *)
(***************************************************************************)
\* A disconnect that leaves the socket object in place.
DisconnectKeepsSocket(c, w) ==
    [cli |-> [c EXCEPT !.stop = TRUE, !.connected = FALSE], wire |-> w]

\* disconnect on the client object and the connection: the stop event is
\* set, connected is cleared, a socket that is there is closed and dropped;
\* join only waits for the receive thread, which ends in a step of its own.
ClientDisconnect(c, w) ==
    [cli |-> [c EXCEPT !.stop = TRUE, !.connected = FALSE, !.sock = "none"],
     wire |-> IF c.sock = "open"
              THEN [w EXCEPT !.hub_end = IF @ = "open" THEN "closed" ELSE @,
                             !.to_client = << >>]
              ELSE w]

\* disconnect called by the embedding process.
Disconnect ==
    /\ call.op = "idle"
    /\ \E d \in {ClientDisconnect(cli, wire)} :
          /\ cli' = d.cli
          /\ wire' = d.wire
    /\ call' = [Step("disconnect") EXCEPT !.result = RNone]
    /\ UNCHANGED <<log, now, sent, roomVars, appendVars, raceVars, hubVars, sqlVars,
                   sigVars, dataVars>>

NextDisconnect ==
    \/ \E line \in {RoutedLine, NoiseLine} : HubWrites(line)
    \/ HubCloses
    \/ HubStops
    \/ \E n \in 0 .. MaxWire : ClientRecv(n)
    \/ Connect
    \/ \E body \in ClientBodies : SendBegin(body)
    \/ Poll
    \/ Receive
    \/ Disconnect

SpecDisconnect == Init /\ [][NextDisconnect]_vars

NextAppendHub ==
    \/ NextAppend
    \/ HubAccept(1)
    \/ HubRoute(1, <<"x">>)

SpecAppendHub == Init /\ [][NextAppendHub]_vars

\* The processes inside the append sequence of append_message: the lock is
\* taken and the id not yet counted.
InAppend == {p \in Sessions : app[p].pc \in {"write", "count"}}

\* C34: a step that appends to messages.log is made by the holder of the
\* room's lock, at most one sender is inside its append sequence, and the
\* hub logs a routed message only while no sender is inside its own.
C34_LogWritersExcluded ==
    [][/\ Cardinality(InAppend) <= 1
       /\ log' # log =>
             \/ \E p \in Sessions : lock = p /\ app[p].pc = "write" /\ app'[p].pc = "count"
             \/ Len(routed') > Len(routed) /\ InAppend = {}]_vars

\* C35: a step that deletes the pending marker of a reader deletes the
\* marker the reader's pending or check call has read and is about to
\* return, under every interleaving with the sender and the listen daemon.
C35_MarkerConsumedAtomically ==
    [][\A r \in Readers :
          (pending[r] # None /\ pending'[r] = None) => rd.range = pending[r]]_vars

\* The ids of the messages of a list that have the given sender, type and
\* content.
IdsOf(msgs, m) ==
    {msgs[i].id : i \in {j \in 1 .. Len(msgs) :
                            /\ msgs[j].session_id = m.session_id
                            /\ msgs[j].msg_type = m.msg_type
                            /\ msgs[j].content = m.content}}

\* C36: the id append_message gave a message with a content is an id under
\* which read_messages returns that message, with the file backend and with
\* the database, and the ids of successive appends increase.
C36_AppendIdIsReadId ==
    /\ \A k \in 1 .. Len(sent) :
          sent[k].content # << >> =>
              sent[k].id \in IdsOf(ReadMessages(log, 0, 0, None, None), sent[k])
    /\ \A k \in 1 .. Len(sent) - 1 : sent[k].id < sent[k + 1].id
    /\ LET rows == RoomRows(sql.messages, RoomX)
       IN  /\ \A k \in 1 .. Len(rows) :
                 rows[k].id \in IdsOf(SqlReadMessages(sql, RoomX, 0, 0, None, None),
                                      rows[k])
           /\ \A k \in 1 .. Len(rows) - 1 : rows[k].id < rows[k + 1].id

(***************************************************************************)
(* Reads of the hub that do not end where a line ends: the bytes of one    *)
(* object in two reads, and two objects in one read.                       *)
(***************************************************************************)
\* The objects the clients of this specification write, one per line.
ClientLines == {RegLine(<<"a">>), RegLine(<<"b">>), MsgLine(<<"x">>)}

\* What recv returns: a line, two lines, or the bytes of a line up to or
\* from a place between two of its tokens.
SplitDatas ==
    {<<l>> : l \in ClientLines}
        \cup {<<l, m>> : l, m \in {RegLine(<<"a">>), MsgLine(<<"x">>)}}
        \cup UNION {{<<Take(l, k)>>, <<Drop(l, k)>>} :
                        l \in ClientLines, k \in {4}}

NextSplit ==
    \/ \E sock \in NoiseConns : HubAccept(sock)
    \/ \E sock \in NoiseConns, data \in SplitDatas, perm \in DataOrders :
            HubData(sock, data, perm)

SpecSplit == Init /\ [][NextSplit]_vars

\* C37: the hub does with the bytes of a socket what it does with their
\* lines one by one, wherever the reads end: reading an object in two
\* parts leaves the hub as reading its line in one read does, and reading
\* two lines in one read leaves it as reading them one after the other
\* does.
C37_ReadsFramedByNewline ==
    \A sock \in DOMAIN sockets, perm \in DataOrders :
        (hub = "running" /\ conns[sock] = "open") =>
            /\ \A l \in ClientLines : \A k \in 1 .. (Len(l) - 1) :
                  HandleClientData(HandleClientData(HubState, sock, <<Take(l, k)>>, perm),
                                   sock, <<Drop(l, k)>>, perm)
                      = HandleClientData(HubState, sock, <<l>>, perm)
            /\ \A l, m \in ClientLines :
                  HandleClientData(HubState, sock, <<l, m>>, perm)
                      = HandleClientData(HandleClientData(HubState, sock, <<l>>, perm),
                                         sock, <<m>>, perm)

\* The order of two timestamps: the strings of strftime compare as their
\* clocks do.
TimestampLeq(s, t) ==
    \E i, j \in 0 .. MaxClock : s = Timestamp(i) /\ t = Timestamp(j) /\ i <= j

\* C38: under every interleaving of the senders the timestamps of the
\* messages read from the log do not decrease as the ids grow, as they
\* would with a clock read by the holder of the room's lock.
C38_TimestampsFollowIds ==
    LET msgs == ReadMessages(log, 0, 0, None, None)
    IN  \A i, j \in 1 .. Len(msgs) :
            msgs[i].id < msgs[j].id =>
                TimestampLeq(msgs[i].timestamp, msgs[j].timestamp)

(***************************************************************************)
(* Messages with every kind of recipient, stored by both backends and read *)
(* back through the recipient filter of read_messages.                     *)
(***************************************************************************)
\* The recipients of this specification: none, everyone, one session, a
\* session in other case, lists, and a name that only contains a session's.
StoredRecipients ==
    { None, <<"*">>, <<"a">>, <<"b">>, <<"A">>, <<"a", ",", "b">>,
      <<"b", ",", "a">>, <<"a", "b">> }

NextRecipient ==
    \E t \in LogTypes, rcpt \in StoredRecipients : BothSend(<<"b">>, <<"x">>, t, rcpt)

SpecRecipient == Init /\ [][NextRecipient]_vars

\* The ids of the messages of a list.
IdSet(msgs) == {msgs[k].id : k \in 1 .. Len(msgs)}

\* A recipient that is null, "*", the reader, or a comma-separated list with
\* the reader as one whole element.
NamesReader(rcpt, R) ==
    \/ rcpt = None
    \/ rcpt = <<"*">>
    \/ rcpt = R
    \/ \E k \in 1 .. Len(Split(rcpt, ",")) : Split(rcpt, ",")[k] = R

\* C39: for every reader R the two backends select the same messages with
\* recipient=R: those whose recipient is null, "*", R, or a comma-separated
\* list with R as one whole element.
C39_RecipientFiltersAgree ==
    \A R \in Sessions :
        LET file == IdSet(ReadMessages(log, 0, 0, None, R))
            rows == IdSet(SqlReadMessages(sql, RoomX, 0, 0, None, R))
        IN  /\ file = rows
            /\ rows = {sent[k].id : k \in {j \in 1 .. Len(sent) :
                                              NamesReader(sent[j].recipient, R)}}

\* C40: the SENT that a send returns carries the id of the message that
\* this send wrote, the last message the client has written, never that of
\* an earlier message.
C40_ConfirmationIsForThisSend ==
    [][(call.op = "send" /\ call'.op = "idle" /\ call'.result.type = "dict"
            /\ Get(call'.result.val[1], "type", None) = "SENT") =>
          Get(call'.result.val[1], "id", None) = ToString(wire.msgs)]_vars

=============================================================================
